---- MODULE Spec2Model ----
(***************************************************************************)
(* Model of the URL-to-markdown engine of agent-web_qa_bot                 *)
(* (src/src/skills/web_analyzer_skill.py): URL validation and              *)
(* normalisation, the Selenium renderer, the BeautifulSoup tree and the    *)
(* extract / clean / rank / compose stages, and WebAnalyzerSkill.execute;  *)
(* and of its callers: QAAgent (src/src/agent/qa_agent.py) with its        *)
(* reasoning loop and conversation history, and QAExecutor.execute         *)
(* (src/src/executor/qa_executor.py).                                      *)
(*                                                                         *)
(* Strings are TLA+ strings; a character is a string of length 1.          *)
(* Python's None is the empty tuple <<>>, a present value x is <<x>>.      *)
(***************************************************************************)
EXTENDS Integers, Sequences, FiniteSets, TLC

VARIABLES
    pc,               \* position of the running WebAnalyzerSkill.execute call
    url,              \* the argument of execute
    url_is_str,       \* FALSE when the caller passed a non-string argument
    clean_url,        \* url_to_markdown's clean_url
    driver,           \* extract_html_content's driver: "none", "open", "quit"
    launches,         \* browser sessions launched by this call
    quits,            \* driver.quit() calls of this call
    navigations,      \* the URLs driver.get was called with, in order
    exc,              \* the exception in flight, <<>> when none
    html_content,     \* the page snapshot (a sequence of nodes), <<>> before it
    soup,             \* the parsed tree: [nodes, alive]
    special_elements, \* [images, links, code_blocks]
    main_content,     \* the ranked list of <<node index, score>>
    markdown_parts,   \* convert_to_markdown's markdown_parts
    markdown_content, \* what url_to_markdown returned, <<>> before it
    result,           \* what execute returned, <<>> before it
    caught,           \* the exception url_to_markdown's handler caught
    escaped,          \* TRUE when an exception left execute
    u_in,             \* pure-function harness: the input string
    u_valid,          \* pure-function harness: validate_url(u_in), <<>> before
    u_once,           \* pure-function harness: ensure_url_scheme(u_in)
    u_twice,          \* pure-function harness: ensure_url_scheme applied twice
    s_name,           \* scoring harness: the element's tag name
    s_chain,          \* scoring harness: its ancestors' tag names, nearest first
    s_len,            \* scoring harness: the length of its visible text
    s_score,          \* scoring harness: calculate_element_score of it
    calls,            \* two concurrent calls: the url each was called with
    fault,            \* two concurrent calls: what fails in each, "none" if nothing
    ppc,              \* two concurrent calls: the position of each
    frame,            \* two concurrent calls: the local variables of each
    sessions,         \* two concurrent calls: the browser sessions of the host
    loop_running,     \* event loop: the coroutine on the loop's thread
    tool_pc,          \* event loop: the position of QAAgent._execute_tool
    tool_url,         \* event loop: the url argument of the tool call
    stream_pc,        \* event loop: the position of a response being streamed
    chunks_sent,      \* event loop: the chunks of that response sent so far
    c_soup,           \* composer harness: the tree the listed elements are in
    c_main,           \* composer harness: the (element, score) list passed in
    c_parts,          \* composer harness: markdown_parts of the call
    c_raised,         \* composer harness: TRUE when the call raised
    c_pc,             \* composer harness: "ready" before the call, "done" after
    e_pc,             \* QAExecutor.execute: the position of the call
    user_message,     \* QAExecutor.execute: the text of the request
    e_context_id,     \* QAExecutor.execute: context_id of the request
    e_task_id,        \* QAExecutor.execute: task_id of the request
    e_final_response, \* QAExecutor.execute: what the LLM answers when asked
    response_text,    \* QAExecutor.execute: response_text
    event_queue,      \* QAExecutor.execute: the events enqueued, in order
    e_exc,            \* QAExecutor.execute: the exception its handler caught
    r_pc,             \* _execute_agent_internally: the position of the call
    r_client,         \* _execute_agent_internally: TRUE when self.client is set
    iteration,        \* _execute_agent_internally: iteration
    executed_actions, \* _execute_agent_internally: executed_actions
    decision,         \* _execute_agent_internally: decision, <<>> when None
    decisions_requested, \* _get_agent_decision calls made by this call
    final_calls,      \* _generate_final_response calls made by this call
    response,         \* the value returned, <<>> before the return
    conversation_history, \* QAAgent.conversation_history: context_id -> list
    completed,        \* every exchange appended so far, per context_id
    h_pc,             \* two process_query calls: the position of each
    h_ctx,            \* two process_query calls: context_id of each
    h_query,          \* two process_query calls: query of each
    h_response,       \* two process_query calls: final_response of each
    h_sent            \* two process_query calls: the chunks each has yielded

pipeline_vars == <<pc, url, url_is_str, clean_url, driver, launches, quits,
                   navigations, exc, html_content, soup, special_elements,
                   main_content, markdown_parts, markdown_content, result,
                   caught, escaped>>
url_vars == <<u_in, u_valid, u_once, u_twice>>
score_vars == <<s_name, s_chain, s_len, s_score>>
pair_vars == <<calls, fault, ppc, frame, sessions>>
loop_vars == <<loop_running, tool_pc, tool_url, stream_pc, chunks_sent>>
compose_vars == <<c_soup, c_main, c_parts, c_raised, c_pc>>
exec_vars == <<e_pc, user_message, e_context_id, e_task_id, e_final_response,
               response_text, event_queue, e_exc>>
reason_vars == <<r_pc, r_client, iteration, executed_actions, decision,
                 decisions_requested, final_calls, response>>
hist_vars == <<conversation_history, completed, h_pc, h_ctx, h_query,
               h_response, h_sent>>
engine_vars == <<pipeline_vars, url_vars, score_vars, pair_vars, loop_vars>>
agent_vars == <<compose_vars, exec_vars, reason_vars, hist_vars>>
vars == <<engine_vars, agent_vars>>

None == <<>>
Some(x) == <<x>>

---------------------------------------------------------------------------
(* Bounds of the model *)

\* longest generated tail of a URL input (after its prefix)
MaxUrlTail == 3
\* most nodes of a generated page
MaxNodes == 2
\* longest visible text of the scoring harness
MaxTextLen == 102
\* most ancestors of the element of the scoring harness
MaxDepth == 2
\* the chunks of the response streamed while a tool call runs
MaxChunks == 3

---------------------------------------------------------------------------
(* Characters and strings *)

LowerLetters == "abcdefghijklmnopqrstuvwxyz"
UpperLetters == "ABCDEFGHIJKLMNOPQRSTUVWXYZ"
Digits == "0123456789"

CharAt(s, i) == SubSeq(s, i, i)

CharsOf(s) == {CharAt(s, i) : i \in 1..Len(s)}

LowerSet == CharsOf(LowerLetters)
UpperSet == CharsOf(UpperLetters)
DigitSet == CharsOf(Digits)

IsLower(c) == c \in LowerSet
IsUpper(c) == c \in UpperSet
IsAlpha(c) == IsLower(c) \/ IsUpper(c)
IsDigit(c) == c \in DigitSet
\* Python's \s and str.strip() whitespace, ASCII part
IsSpace(c) == c \in {" ", "\t", "\n", "\r"}

\* str.lower() of one character
LowerChar(c) ==
    IF IsUpper(c)
    THEN CharAt(LowerLetters, CHOOSE i \in 1..26 : CharAt(UpperLetters, i) = c)
    ELSE c

RECURSIVE LowerStr(_)
LowerStr(s) ==
    IF s = "" THEN "" ELSE LowerChar(Head(s)) \o LowerStr(Tail(s))

\* str.startswith(prefix)
StartsWith(s, prefix) ==
    Len(s) >= Len(prefix) /\ SubSeq(s, 1, Len(prefix)) = prefix

\* s[p:p+len(lit)] equals lit, ignoring case (re.IGNORECASE on a literal)
LitAt(s, p, lit) ==
    /\ p + Len(lit) - 1 <= Len(s)
    /\ LowerStr(SubSeq(s, p, p + Len(lit) - 1)) = lit

---------------------------------------------------------------------------
(* validate_url: the regular expression, as the set of positions each      *)
(* group can end at, given the positions the groups before it can end at   *)
(* (a position is the index of the next character).                        *)

IsHostChar(c) == IsAlpha(c) \/ IsDigit(c) \/ c \in {".", "-"}
IsNonSpace(c) == ~IsSpace(c)

\* every character of s[p..q-1] is of the class
AllHostChars(s, p, q) == \A k \in p..(q - 1) : IsHostChar(CharAt(s, k))
AllAlpha(s, p, q) == \A k \in p..(q - 1) : IsAlpha(CharAt(s, k))
AllDigits(s, p, q) == \A k \in p..(q - 1) : IsDigit(CharAt(s, k))
AllNonSpace(s, p, q) == \A k \in p..(q - 1) : IsNonSpace(CharAt(s, k))

\* ^(https?:\/\/)?
AfterScheme(s) ==
    {1} \cup (IF LitAt(s, 1, "http://") THEN {8} ELSE {})
        \cup (IF LitAt(s, 1, "https://") THEN {9} ELSE {})

\* (www\.)?
AfterWww(s, from) ==
    from \cup {p + 4 : p \in {q \in from : LitAt(s, q, "www.")}}

\* ([a-zA-Z0-9.-]+)
AfterHost(s, from) ==
    UNION {{q \in (p + 1)..(Len(s) + 1) : AllHostChars(s, p, q)} :
           p \in from}

\* (\.[a-zA-Z]{2,})?
AfterTld(s, from) ==
    from \cup
    UNION {{q \in (p + 3)..(Len(s) + 1) :
              CharAt(s, p) = "." /\ AllAlpha(s, p + 1, q)} :
           p \in from}

\* (:\d+)?
AfterPort(s, from) ==
    from \cup
    UNION {{q \in (p + 2)..(Len(s) + 1) :
              CharAt(s, p) = ":" /\ AllDigits(s, p + 1, q)} :
           p \in from}

\* (\/[^\s]*)?
AfterPath(s, from) ==
    from \cup
    UNION {{q \in (p + 1)..(Len(s) + 1) :
              CharAt(s, p) = "/" /\ AllNonSpace(s, p + 1, q)} :
           p \in from}

\* $ without re.MULTILINE: the end, or just before a final newline
AtEnd(s, p) ==
    \/ p = Len(s) + 1
    \/ p = Len(s) /\ CharAt(s, p) = "\n"

\* bool(url_regex.match(url))
validate_url(s) ==
    LET scheme == AfterScheme(s)
        www == AfterWww(s, scheme)
        host == AfterHost(s, www)
        tld == AfterTld(s, host)
        port == AfterPort(s, tld)
        path == AfterPath(s, port)
    IN  \E p \in path : AtEnd(s, p)

\* ensure_url_scheme
ensure_url_scheme(s) ==
    IF ~(StartsWith(s, "http://") \/ StartsWith(s, "https://"))
    THEN "https://" \o s
    ELSE s

---------------------------------------------------------------------------
(* The parsed document: BeautifulSoup(html_content, 'html.parser').         *)
(* A page is the sequence of its nodes in document order; a node is a tag, *)
(* a text string or a comment and names its parent (0 is the document).    *)
(* A tree is [nodes, alive]: decompose()/extract() take nodes out of alive.*)

Tag(name, cls, id, src, alt, href) ==
    [kind |-> "tag", name |-> name, class |-> cls, id |-> id, src |-> src,
     alt |-> alt, href |-> href, text |-> "", parent |-> 0]
Elem(name) == Tag(name, "", "", "", "", "")
Text(t) ==
    [kind |-> "text", name |-> "", class |-> "", id |-> "", src |-> "",
     alt |-> "", href |-> "", text |-> t, parent |-> 0]
CommentNode(t) ==
    [kind |-> "comment", name |-> "", class |-> "", id |-> "", src |-> "",
     alt |-> "", href |-> "", text |-> t, parent |-> 0]
Under(node, par) == [node EXCEPT !.parent = par]

\* elements html.parser closes at once: they hold no children
VoidTags == {"img", "br", "hr", "input", "meta", "link", "embed"}

CanHoldChildren(node) == node.kind = "tag" /\ node.name \notin VoidTags

RECURSIVE AncestorsOrSelf(_, _)
\* the chain i, parent(i), ... up to the document, nearest first
AncestorsOrSelf(nodes, i) ==
    IF i = 0 THEN <<>> ELSE <<i>> \o AncestorsOrSelf(nodes, nodes[i].parent)

\* element.parent, element.parent.parent, ... (the document itself excluded)
Ancestors(nodes, i) == AncestorsOrSelf(nodes, nodes[i].parent)

SeqToSet(q) == {q[k] : k \in 1..Len(q)}

Descendants(nodes, i) ==
    {j \in 1..Len(nodes) : i \in SeqToSet(Ancestors(nodes, j))}

\* BeautifulSoup(html, 'html.parser')
ParseHtml(page) == [nodes |-> page, alive |-> 1..Len(page)]

RECURSIVE InOrder(_)
\* the node indices of a set, in document order
InOrder(found) ==
    IF found = {} THEN <<>>
    ELSE LET first == CHOOSE a \in found : \A b \in found : a <= b
         IN  <<first>> \o InOrder(found \ {first})

IsTagNamed(node, names) == node.kind = "tag" /\ node.name \in names

\* soup.find_all(name) / soup.find_all([names]): in document order
find_all(tree, names) ==
    InOrder({a \in tree.alive : IsTagNamed(tree.nodes[a], names)})

\* soup.find_all(string=lambda text: isinstance(text, Comment))
find_all_comments(tree) ==
    InOrder({a \in tree.alive : tree.nodes[a].kind = "comment"})

\* tag.decompose() / comment.extract(): the node and its subtree leave the tree
decompose(tree, gone) ==
    [tree EXCEPT !.alive = @ \ ({gone} \cup Descendants(tree.nodes, gone))]

\* Fault variant of DecomposeEach: only the first node found is decomposed
\* (soup.find in place of soup.find_all)
DecomposeEach_FirstOnly(tree, found) ==
    [tree EXCEPT !.alive =
        @ \ UNION {{found[k]} \cup Descendants(tree.nodes, found[k]) :
                   k \in (DOMAIN found) \cap {1}}]

\* Fault variant of DecomposeEach: the nodes found leave the tree, what is
\* below them stays
DecomposeEach_NodeOnly(tree, found) ==
    [tree EXCEPT !.alive = @ \ SeqToSet(found)]

\* for x in found: x.decompose(), found being a list made before the loop:
\* decomposing a node that already left the tree changes nothing
DecomposeEach(tree, found) ==
    [tree EXCEPT !.alive =
        @ \ UNION {{g} \cup Descendants(tree.nodes, g) : g \in SeqToSet(found)}]

\* str.strip()
RECURSIVE LStrip(_)
LStrip(s) == IF s # "" /\ IsSpace(Head(s)) THEN LStrip(Tail(s)) ELSE s
RECURSIVE RStrip(_)
RStrip(s) ==
    IF s # "" /\ IsSpace(CharAt(s, Len(s)))
    THEN RStrip(SubSeq(s, 1, Len(s) - 1)) ELSE s
Strip(s) == RStrip(LStrip(s))

RECURSIVE ConcatAll(_)
ConcatAll(strs) ==
    IF strs = <<>> THEN "" ELSE Head(strs) \o ConcatAll(Tail(strs))

\* element.get_text(strip=True): the stripped, non-empty text strings below
\* the element (comments are not text), joined without a separator
get_text(tree, el) ==
    LET below == InOrder({t \in tree.alive :
                     /\ tree.nodes[t].kind = "text"
                     /\ el \in SeqToSet(Ancestors(tree.nodes, t))
                     /\ Strip(tree.nodes[t].text) # ""})
    IN  ConcatAll([k \in 1..Len(below) |-> Strip(tree.nodes[below[k]].text)])

---------------------------------------------------------------------------
(* parse_special_elements *)


ImageLine(node) == "![" \o node.alt \o "](" \o node.src \o ")"
LinkLine(text, href) == "[" \o text \o "](" \o href \o ")"
\* a TLA+ string cannot hold a backquote: the fence is written with quotes
Fence == "'''"
CodeLine(text) == Fence \o "\n" \o text \o "\n" \o Fence

\* for img in soup.find_all('img'): if src: append
ExtractImages(tree) ==
    LET kept == InOrder({a \in SeqToSet(find_all(tree, {"img"})) :
                    tree.nodes[a].src # ""})
    IN  [k \in 1..Len(kept) |-> ImageLine(tree.nodes[kept[k]])]

\* for link in soup.find_all('a', href=True): if href and text and len(text) > 3
ExtractLinks(tree) ==
    LET kept == InOrder({a \in SeqToSet(find_all(tree, {"a"})) :
                    tree.nodes[a].href # "" /\ Len(get_text(tree, a)) > 3})
    IN  [k \in 1..Len(kept) |->
            LinkLine(get_text(tree, kept[k]), tree.nodes[kept[k]].href)]

\* for code in soup.find_all(['code', 'pre']): if code_text and len(code_text) > 10
ExtractCodeBlocks(tree) ==
    LET kept == InOrder({a \in SeqToSet(find_all(tree, {"code", "pre"})) :
                    Len(get_text(tree, a)) > 10})
    IN  [k \in 1..Len(kept) |-> CodeLine(get_text(tree, kept[k]))]

parse_special_elements(tree) ==
    [images |-> ExtractImages(tree),
     links |-> ExtractLinks(tree),
     code_blocks |-> ExtractCodeBlocks(tree)]

---------------------------------------------------------------------------
(* clean_html_content *)

unwanted_tags ==
    <<"script", "style", "meta", "link", "noscript",
      "iframe", "embed", "object", "form", "input",
      "button", "select", "textarea", "nav", "footer",
      "header", "aside", "advertisement">>

unwanted_patterns ==
    <<"advertisement", "ads", "popup", "modal", "cookie",
      "newsletter", "subscribe", "social", "share",
      "related", "sidebar", "menu", "navigation">>

\* re.compile(pattern, re.I).search(value)
SearchIgnoreCase(pattern, value) ==
    \E p \in 1..(Len(value) - Len(pattern) + 1) :
        LowerStr(SubSeq(value, p, p + Len(pattern) - 1)) = pattern

\* soup.find_all(attrs={attr: re.compile(pattern, re.I)})
find_all_attr(tree, attr, pattern) ==
    InOrder({a \in tree.alive :
                /\ tree.nodes[a].kind = "tag"
                /\ SearchIgnoreCase(pattern, tree.nodes[a][attr])})

RECURSIVE RemoveTags(_, _)
\* for tag_name in unwanted_tags: for tag in soup.find_all(tag_name): tag.decompose()
RemoveTags(tree, names) ==
    IF names = <<>> THEN tree
    ELSE RemoveTags(
             DecomposeEach(tree, find_all(tree, {Head(names)})),
             Tail(names))

\* for comment in soup.find_all(string=lambda text: isinstance(text, Comment))
RemoveComments(tree) ==
    DecomposeEach(tree, find_all_comments(tree))

RECURSIVE RemovePatterns(_, _)
\* for pattern in unwanted_patterns: the class matches, then the id matches
RemovePatterns(tree, patterns) ==
    IF patterns = <<>> THEN tree
    ELSE LET byClass ==
                 DecomposeEach(tree, find_all_attr(tree, "class", Head(patterns)))
             byId ==
                 DecomposeEach(byClass, find_all_attr(byClass, "id", Head(patterns)))
         IN  RemovePatterns(byId, Tail(patterns))

clean_html_content(tree) ==
    RemovePatterns(RemoveComments(RemoveTags(tree, unwanted_tags)),
                   unwanted_patterns)

---------------------------------------------------------------------------
(* calculate_element_score and rank_content_by_importance.                 *)
(* Weights are kept in tenths and scores in thousandths, so that every     *)
(* product of the formula is an integer.                                    *)

TAG_SCORES ==
    [h1 |-> 30, h2 |-> 25, h3 |-> 20, h4 |-> 15,
     p |-> 15, li |-> 12, ul |-> 10, ol |-> 10,
     table |-> 20, thead |-> 5, tbody |-> 5,
     tr |-> 3, td |-> 2, th |-> 3,
     img |-> 15, figure |-> 15, figcaption |-> 12,
     blockquote |-> 10, code |-> 10, pre |-> 10,
     strong |-> 5, em |-> 5, a |-> 0,
     span |-> 3, div |-> 5]

CONTAINER_SCORES ==
    [main |-> 30, article |-> 20, section |-> 20, body |-> 10, div |-> 5]

\* Fault variant of Get: a missing key gives 0, whatever the default
Get_DefaultIgnored(table, key, default) ==
    IF key \in DOMAIN table THEN table[key] ELSE 0

\* dict.get(key, default)
Get(table, key, default) ==
    IF key \in DOMAIN table THEN table[key] ELSE default

RECURSIVE SumSeq(_)
SumSeq(q) == IF q = <<>> THEN 0 ELSE Head(q) + SumSeq(Tail(q))

\* Fault variant of ScoreOf: the low-content penalty tests > 10 in place of < 10
ScoreOf_PenaltyInverted(name, text_length, ancestor_names) ==
    LET base == Get(TAG_SCORES, name, 5) * 100
        boosted == IF text_length > 100 THEN (base * 15) \div 10
                   ELSE IF text_length > 50 THEN (base * 12) \div 10
                   ELSE base
        container == SumSeq([k \in 1..Len(ancestor_names) |->
                         Get(CONTAINER_SCORES, ancestor_names[k], 0) * 10])
        total == boosted + container
    IN  IF text_length > 10 THEN (total * 3) \div 10 ELSE total

\* Fault variant of ScoreOf: only the nearest matching ancestor adds its
\* boost (the walk stops at it) and the length test is >= 100
ScoreOf_NearestOnly(name, text_length, ancestor_names) ==
    LET base == Get(TAG_SCORES, name, 5) * 100
        boosted == IF text_length >= 100 THEN (base * 15) \div 10
                   ELSE IF text_length > 50 THEN (base * 12) \div 10
                   ELSE base
        matching == {k \in 1..Len(ancestor_names) :
                        ancestor_names[k] \in DOMAIN CONTAINER_SCORES}
        container == IF matching = {} THEN 0
                     ELSE LET k == CHOOSE j \in matching :
                                       \A h \in matching : j <= h
                          IN  CONTAINER_SCORES[ancestor_names[k]] * 10
        total == boosted + container
    IN  IF text_length < 10 THEN (total * 3) \div 10 ELSE total

\* the score, in thousandths, of an element with this tag name, text length
\* and chain of ancestor tag names
ScoreOf(name, text_length, ancestor_names) ==
    LET base == Get(TAG_SCORES, name, 5) * 100
        boosted == IF text_length > 100 THEN (base * 15) \div 10
                   ELSE IF text_length > 50 THEN (base * 12) \div 10
                   ELSE base
        container == SumSeq([k \in 1..Len(ancestor_names) |->
                         Get(CONTAINER_SCORES, ancestor_names[k], 0) * 10])
        total == boosted + container
    IN  IF text_length < 10 THEN (total * 3) \div 10 ELSE total

\* the tag names of element.parent, its parent, ... nearest first
AncestorNames(tree, el) ==
    LET chain == Ancestors(tree.nodes, el)
    IN  [k \in 1..Len(chain) |-> tree.nodes[chain[k]].name]

\* Fault variant of calculate_element_score: an element with under 10
\* characters of text scores 0
calculate_element_score_ZeroForShort(tree, el) ==
    IF tree.nodes[el].kind # "tag" \/ Len(get_text(tree, el)) < 10 THEN 0
    ELSE ScoreOf(LowerStr(tree.nodes[el].name), Len(get_text(tree, el)),
                 AncestorNames(tree, el))

calculate_element_score(tree, el) ==
    IF tree.nodes[el].kind # "tag" THEN 0
    ELSE ScoreOf(LowerStr(tree.nodes[el].name), Len(get_text(tree, el)),
                 AncestorNames(tree, el))

content_tags ==
    <<"h1", "h2", "h3", "h4", "h5", "h6", "p", "li", "blockquote", "table">>

RECURSIVE ScanTags_Above1(_, _)
\* Fault variant of ScanTags: the test is score > 1.0
ScanTags_Above1(tree, names) ==
    IF names = <<>> THEN <<>>
    ELSE LET kept == InOrder({a \in SeqToSet(find_all(tree, {Head(names)})) :
                         calculate_element_score(tree, a) > 1000})
         IN  [k \in 1..Len(kept) |->
                 <<kept[k], calculate_element_score(tree, kept[k])>>]
             \o ScanTags_Above1(tree, Tail(names))

RECURSIVE ScanTags(_, _)
\* for tag_name in content_tags: for element in soup.find_all(tag_name)
ScanTags(tree, names) ==
    IF names = <<>> THEN <<>>
    ELSE LET kept == InOrder({a \in SeqToSet(find_all(tree, {Head(names)})) :
                         calculate_element_score(tree, a) > 100})
         IN  [k \in 1..Len(kept) |->
                 <<kept[k], calculate_element_score(tree, kept[k])>>]
             \o ScanTags(tree, Tail(names))

RECURSIVE InsertByScore_Unstable(_, _)
\* Fault variant of InsertByScore: e goes before the entries of equal score
InsertByScore_Unstable(sorted, e) ==
    IF sorted = <<>> THEN <<e>>
    ELSE IF Head(sorted)[2] > e[2]
         THEN <<Head(sorted)>> \o InsertByScore_Unstable(Tail(sorted), e)
         ELSE <<e>> \o sorted

RECURSIVE InsertByScore(_, _)
\* puts e after every entry whose score is at least e's: a stable insertion
InsertByScore(sorted, e) ==
    IF sorted = <<>> THEN <<e>>
    ELSE IF Head(sorted)[2] >= e[2]
         THEN <<Head(sorted)>> \o InsertByScore(Tail(sorted), e)
         ELSE <<e>> \o sorted

RECURSIVE SortByScore(_, _)
\* scored_elements.sort(key=lambda x: x[1], reverse=True): stable
SortByScore(done, todo) ==
    IF todo = <<>> THEN done
    ELSE SortByScore(InsertByScore(done, Head(todo)), Tail(todo))

rank_content_by_importance(tree) ==
    SortByScore(<<>>, ScanTags(tree, content_tags))

---------------------------------------------------------------------------
(* convert_to_markdown *)

RECURSIVE Repeat(_, _)
\* s * n
Repeat(s, n) == IF n <= 0 THEN "" ELSE s \o Repeat(s, n - 1)

\* int(c) of one decimal digit
DigitValue(c) == CHOOSE d \in 0..9 : CharAt(Digits, d + 1) = c

\* int(tag_name[1]) raises: no second character, or not a digit
RenderRaises(name) ==
    StartsWith(name, "h") /\ (Len(name) < 2 \/ ~IsDigit(CharAt(name, 2)))

\* the markdown block of one emitted element
Render(name, text) ==
    IF StartsWith(name, "h")
    THEN Repeat("#", DigitValue(CharAt(name, 2))) \o " " \o text
    ELSE IF name = "p" THEN text
    ELSE IF name = "li" THEN "- " \o text
    ELSE IF name = "blockquote" THEN "> " \o text
    ELSE IF name = "table" THEN "**Table:** " \o text
    ELSE text

\* Fault variant of Skipped: the length test is missing
Skipped_NoLengthCheck(text, seen_text) == text \in seen_text

\* Fault variant of Skipped: seen_text is never consulted
Skipped_NoSeenCheck(text, seen_text) == Len(text) < 10

\* Fault variant of Skipped: the length test is < 5
Skipped_Under5(text, seen_text) == text \in seen_text \/ Len(text) < 5

\* text in seen_text or len(text) < 10
Skipped(text, seen_text) == text \in seen_text \/ Len(text) < 10

RECURSIVE ComposeMain(_, _, _, _)
\* for element, score in main_content: ... ; the first element raising ends it
\* with [raised |-> TRUE]
ComposeMain(tree, todo, seen_text, parts) ==
    IF todo = <<>> THEN [raised |-> FALSE, parts |-> parts]
    ELSE LET i == Head(todo)[1]
             text == get_text(tree, i)
             name == LowerStr(tree.nodes[i].name)
         IN  IF Skipped(text, seen_text)
             THEN ComposeMain(tree, Tail(todo), seen_text, parts)
             ELSE IF RenderRaises(name)
             THEN [raised |-> TRUE, parts |-> parts]
             ELSE ComposeMain(tree, Tail(todo), seen_text \cup {text},
                              parts \o <<Render(name, text), "">>)

\* q[:n]
Take(q, n) == SubSeq(q, 1, IF Len(q) < n THEN Len(q) ELSE n)

RECURSIVE Unique(_, _)
\* list(dict.fromkeys(q)): the first occurrence of each string, in order
Unique(q, seen) ==
    IF q = <<>> THEN <<>>
    ELSE IF Head(q) \in seen THEN Unique(Tail(q), seen)
    ELSE <<Head(q)>> \o Unique(Tail(q), seen \cup {Head(q)})

\* Fault variant of ImageSection: the slice [:5] is missing
ImageSection_NoCap(special) ==
    IF special.images # <<>>
    THEN <<"## Images">> \o special.images \o <<"">>
    ELSE <<>>

\* Fault variant of LinkSection: the slice [:10] is taken before the
\* duplicates are dropped
LinkSection_CapBeforeUnique(special) ==
    IF special.links # <<>>
    THEN <<"## Important Links">> \o Unique(Take(special.links, 10), {})
    ELSE <<>>

CodeSection(special) ==
    IF special.code_blocks # <<>>
    THEN <<"## Code Blocks">> \o special.code_blocks \o <<"">>
    ELSE <<>>

ImageSection(special) ==
    IF special.images # <<>>
    THEN <<"## Images">> \o Take(special.images, 5) \o <<"">>
    ELSE <<>>

LinkSection(special) ==
    IF special.links # <<>>
    THEN <<"## Important Links">> \o Take(Unique(special.links, {}), 10)
    ELSE <<>>

\* Fault variant of MarkdownParts: the Images section is appended before the
\* Code Blocks section
MarkdownParts_ImagesFirst(tree, special, main) ==
    ComposeMain(tree, main, {}, <<>>).parts
        \o ImageSection(special) \o CodeSection(special) \o LinkSection(special)

\* markdown_parts at the return statement
MarkdownParts(tree, special, main) ==
    ComposeMain(tree, main, {}, <<>>).parts
        \o CodeSection(special) \o ImageSection(special) \o LinkSection(special)

RECURSIVE Join(_, _)
\* sep.join(parts)
Join(parts, sep) ==
    IF parts = <<>> THEN ""
    ELSE IF Len(parts) = 1 THEN Head(parts)
    ELSE Head(parts) \o sep \o Join(Tail(parts), sep)

convert_to_markdown(tree, special, main) ==
    Join(MarkdownParts(tree, special, main), "\n")

---------------------------------------------------------------------------
(* Inputs *)

UrlPrefixes == {"", "http://", "https://", "HTTP://", "Https://", "www.", "ftp://"}
UrlAlphabet == {"a", "1", ".", ":", "/", " "}

RECURSIVE Tails(_)
\* the strings over UrlAlphabet of length at most n
Tails(n) ==
    IF n = 0 THEN {""}
    ELSE Tails(n - 1) \cup {t \o c : t \in Tails(n - 1), c \in UrlAlphabet}

NamedUrls ==
    {"example.com", "http://x.com", "HTTP://x.com", "not a url at all with spaces"}

UrlInputs == NamedUrls \cup {p \o t : p \in UrlPrefixes, t \in Tails(MaxUrlTail)}

\* the arguments execute is called with in the pipeline specification
PipelineUrls ==
    {"example.com", "http://x.com", "not a url at all with spaces"}

\* the nodes generated pages are made of
NodeShapes ==
    {Elem("p"), Elem("nav"), Elem("div"),
     Tag("div", "Sidebar-left", "", "", "", ""),
     Tag("img", "", "", "a.png", "", ""),
     Text("Hello, world"), CommentNode("ad")}

\* where the next node of a page can go: under the document, or under any
\* open element (the last node and its ancestors) that holds children
OpenAt(page) ==
    {0} \cup
    (IF page = <<>> THEN {}
     ELSE {j \in SeqToSet(AncestorsOrSelf(page, Len(page))) :
              CanHoldChildren(page[j])})

RECURSIVE PagesOfLen(_)
PagesOfLen(n) ==
    IF n = 0 THEN {<<>>}
    ELSE UNION {{Append(page, Under(shape, par)) :
                    shape \in NodeShapes, par \in OpenAt(page)} :
                page \in PagesOfLen(n - 1)}

GeneratedPages == UNION {PagesOfLen(n) : n \in 0..MaxNodes}

\* <h1>Title</h1><p>Short</p><nav><a href="/x">Menu</a></nav><img src="a.png">
ExamplePage ==
    <<Elem("h1"), Under(Text("Title"), 1),
      Elem("p"), Under(Text("Short"), 3),
      Elem("nav"), Under(Tag("a", "", "", "", "", "/x"), 5), Under(Text("Menu"), 6),
      Tag("img", "", "", "a.png", "", "")>>

\* <div id="Top-Menu"><p>Hello, world</p><img src="b.png" alt="logo"></div>
\* <p>  Hello, world  </p><!--x-->
SidebarPage ==
    <<Tag("div", "", "Top-Menu", "", "", ""),
      Under(Elem("p"), 1), Under(Text("Hello, world"), 2),
      Under(Tag("img", "", "", "b.png", "logo", ""), 1),
      Elem("p"), Under(Text("  Hello, world  "), 5),
      CommentNode("x")>>

\* <p>Hello, world</p><h2>Hello, world</h2><li>Hello, world</li>
\* <p>Another text</p>
DuplicateTextPage ==
    <<Elem("p"), Under(Text("Hello, world"), 1),
      Elem("h2"), Under(Text("Hello, world"), 3),
      Elem("li"), Under(Text("Hello, world"), 5),
      Elem("p"), Under(Text("Another text"), 7)>>

\* sixteen anchors <a href="/a">Link a</a><a href="/a">Link a</a>
\* <a href="/b">Link b</a> ... <a href="/o">Link o</a>: fifteen distinct
\* links, the first of them twice; then <a href="/p">Go</a> (text too short)
\* and <a>Link q</a> (no href)
LinksPage ==
    [n \in 1..36 |->
        LET k == (n + 1) \div 2
            letter == CharAt(LowerLetters, IF k <= 2 THEN 1 ELSE k - 1)
        IN  IF n % 2 = 1
            THEN Tag("a", "", "", "", "", IF k = 18 THEN "" ELSE "/" \o letter)
            ELSE Under(Text(IF k = 17 THEN "Go" ELSE "Link " \o letter), n - 1)]

\* eight images with a src, the first and the third alike, and one without:
\* <img src="a.png"><img src="b.png"><img src="a.png"><img alt="none">
\* <img src="c.png"> ... <img src="g.png">
ImagesPage ==
    [n \in 1..9 |->
        IF n = 4 THEN Tag("img", "", "", "", "none", "")
        ELSE LET k == IF n = 3 THEN 1 ELSE IF n > 4 THEN n - 2 ELSE n
             IN  Tag("img", "", "", CharAt(LowerLetters, k) \o ".png", "", "")]

\* <h5>Small heading</h5><p>First paragraph</p><h4>Heading four</h4>
\* <p>Second paragraph</p><h1>Big title here</h1>
TiePage ==
    <<Elem("h5"), Under(Text("Small heading"), 1),
      Elem("p"), Under(Text("First paragraph"), 3),
      Elem("h4"), Under(Text("Heading four"), 5),
      Elem("p"), Under(Text("Second paragraph"), 7),
      Elem("h1"), Under(Text("Big title here"), 9)>>

\* <p>Some paragraph</p><pre><code>print hello world</code></pre>
\* <code>line number a</code> ... <code>line number j</code>
\* <code>short</code><img src="a.png"><a href="/x">Menu</a>
CodePage ==
    <<Elem("p"), Under(Text("Some paragraph"), 1),
      Elem("pre"), Under(Elem("code"), 3), Under(Text("print hello world"), 4)>>
    \o [n \in 1..20 |->
           IF n % 2 = 1 THEN Elem("code")
           ELSE Under(Text("line number " \o CharAt(LowerLetters, n \div 2)), n + 4)]
    \o <<Elem("code"), Under(Text("short"), 26),
         Tag("img", "", "", "a.png", "", ""),
         Tag("a", "", "", "", "", "/x"), Under(Text("Menu"), 29)>>

\* <h1>Title</h1><p>Hello, world</p><li>Another item</li><h2>Tiny</h2>
PenaltyPage ==
    <<Elem("h1"), Under(Text("Title"), 1),
      Elem("p"), Under(Text("Hello, world"), 3),
      Elem("li"), Under(Text("Another item"), 5),
      Elem("h2"), Under(Text("Tiny"), 7)>>

NamedPages ==
    {ExamplePage, SidebarPage, DuplicateTextPage, LinksPage, ImagesPage,
     TiePage, CodePage, PenaltyPage}

Pages == GeneratedPages \cup NamedPages

EmptyTree == [nodes |-> <<>>, alive |-> {}]
EmptySpecial == [images |-> <<>>, links |-> <<>>, code_blocks |-> <<>>]

---------------------------------------------------------------------------
(* WebAnalyzerSkill.execute, url_to_markdown and extract_html_content,     *)
(* one action per step.                                                     *)

InvalidResult ==
    [success |-> FALSE, error |-> Some("Invalid URL format"),
     result |-> None, metadata |-> None]

\* processed_at (the wall clock) is left out of metadata
SuccessResult(u, markdown) ==
    [success |-> TRUE, error |-> None, result |-> Some(markdown),
     metadata |-> Some([url |-> u, content_length |-> Len(markdown)])]

FailureResult(message) ==
    [success |-> FALSE, error |-> Some(message), result |-> None,
     metadata |-> None]

ExtractError(u, cause) == "Failed to extract content from " \o u \o ": " \o cause
ProcessingError(u, cause) == "Error processing URL " \o u \o ": " \o cause

InitPipeline ==
    /\ pc = "idle"
    /\ url = ""
    /\ url_is_str = TRUE
    /\ clean_url = None
    /\ driver = "none"
    /\ launches = 0
    /\ quits = 0
    /\ navigations = <<>>
    /\ exc = None
    /\ html_content = None
    /\ soup = EmptyTree
    /\ special_elements = EmptySpecial
    /\ main_content = <<>>
    /\ markdown_parts = <<>>
    /\ markdown_content = None
    /\ result = None
    /\ caught = None
    /\ escaped = FALSE

InitUrlIdle ==
    /\ u_in = ""
    /\ u_valid = None
    /\ u_once = None
    /\ u_twice = None

\* execute(url) is called
Execute ==
    /\ pc = "idle"
    /\ UNCHANGED <<url_vars, score_vars, pair_vars, loop_vars, agent_vars>>
    /\ \/ \E u \in PipelineUrls : url' = u /\ url_is_str' = TRUE
       \/ url' = "123" /\ url_is_str' = FALSE
    /\ pc' = "validate"
    /\ UNCHANGED <<clean_url, driver, launches, quits, navigations, exc,
                   html_content, soup, special_elements, main_content,
                   markdown_parts, markdown_content, result, caught, escaped>>

\* Fault variant of Validate: the invalid-URL branch does not return
Validate_NoEarlyReturn ==
    /\ pc = "validate"
    /\ UNCHANGED <<url_vars, score_vars, pair_vars, loop_vars, agent_vars>>
    /\ IF ~url_is_str
       THEN /\ exc' = Some("expected string or bytes-like object")
            /\ pc' = "execute_except"
       ELSE /\ pc' = "normalize"
            /\ UNCHANGED exc
    /\ UNCHANGED <<url, url_is_str, clean_url, driver, launches, quits,
                   navigations, html_content, soup, special_elements,
                   main_content, markdown_parts, markdown_content, result,
                   caught, escaped>>

\* if not validate_url(url): return {...}; re.match raises on a non-string
Validate ==
    /\ pc = "validate"
    /\ UNCHANGED <<url_vars, score_vars, pair_vars, loop_vars, agent_vars>>
    /\ IF ~url_is_str
       THEN /\ exc' = Some("expected string or bytes-like object")
            /\ pc' = "execute_except"
            /\ UNCHANGED result
       ELSE IF ~validate_url(url)
       THEN /\ result' = Some(InvalidResult)
            /\ pc' = "done"
            /\ UNCHANGED exc
       ELSE /\ pc' = "normalize"
            /\ UNCHANGED <<result, exc>>
    /\ UNCHANGED <<url, url_is_str, clean_url, driver, launches, quits,
                   navigations, html_content, soup, special_elements,
                   main_content, markdown_parts, markdown_content, caught,
                   escaped>>

\* clean_url = ensure_url_scheme(url)
Normalize ==
    /\ pc = "normalize"
    /\ UNCHANGED <<url_vars, score_vars, pair_vars, loop_vars, agent_vars>>
    /\ clean_url' = Some(ensure_url_scheme(url))
    /\ pc' = "launch"
    /\ UNCHANGED <<url, url_is_str, driver, launches, quits, navigations, exc,
                   html_content, soup, special_elements, main_content,
                   markdown_parts, markdown_content, result, caught, escaped>>

\* driver = webdriver.Chrome(options=chrome_options)
Launch ==
    /\ pc = "launch"
    /\ UNCHANGED <<url_vars, score_vars, pair_vars, loop_vars, agent_vars>>
    /\ \/ /\ driver' = "open"
          /\ launches' = launches + 1
          /\ pc' = "navigate"
          /\ UNCHANGED exc
       \/ /\ exc' = Some("chrome not reachable")
          /\ pc' = "extract_except"
          /\ UNCHANGED <<driver, launches>>
    /\ UNCHANGED <<url, url_is_str, clean_url, quits, navigations,
                   html_content, soup, special_elements, main_content,
                   markdown_parts, markdown_content, result, caught, escaped>>

\* driver.set_page_load_timeout(30); driver.get(url); time.sleep(2)
Navigate ==
    /\ pc = "navigate"
    /\ UNCHANGED <<url_vars, score_vars, pair_vars, loop_vars, agent_vars>>
    /\ navigations' = Append(navigations, clean_url[1])
    /\ \/ /\ pc' = "snapshot"
          /\ UNCHANGED exc
       \/ /\ \E cause \in {"page load timeout", "net::ERR_NAME_NOT_RESOLVED"} :
                 exc' = Some(cause)
          /\ pc' = "extract_except"
    /\ UNCHANGED <<url, url_is_str, clean_url, driver, launches, quits,
                   html_content, soup, special_elements, main_content,
                   markdown_parts, markdown_content, result, caught, escaped>>

\* html_content = driver.page_source; return html_content
Snapshot ==
    /\ pc = "snapshot"
    /\ UNCHANGED <<url_vars, score_vars, pair_vars, loop_vars, agent_vars>>
    /\ \/ /\ \E page \in Pages : html_content' = Some(page)
          /\ pc' = "extract_finally"
          /\ UNCHANGED exc
       \/ /\ exc' = Some("invalid session id")
          /\ pc' = "extract_except"
          /\ UNCHANGED html_content
    /\ UNCHANGED <<url, url_is_str, clean_url, driver, launches, quits,
                   navigations, soup, special_elements, main_content,
                   markdown_parts, markdown_content, result, caught, escaped>>

\* Fault variant of ExtractExcept: the first failure of a call is retried
\* with a new browser session
ExtractExcept_RetryOnce ==
    /\ pc = "extract_except"
    /\ UNCHANGED <<url_vars, score_vars, pair_vars, loop_vars, agent_vars>>
    /\ IF launches + Len(navigations) < 3
       THEN exc' = None /\ pc' = "launch"
       ELSE exc' = Some(ExtractError(clean_url[1], exc[1])) /\ pc' = "extract_finally"
    /\ UNCHANGED <<url, url_is_str, clean_url, driver, launches, quits,
                   navigations, html_content, soup, special_elements,
                   main_content, markdown_parts, markdown_content, result,
                   caught, escaped>>

\* except Exception as e: raise Exception(f"Failed to extract content ...")
ExtractExcept ==
    /\ pc = "extract_except"
    /\ UNCHANGED <<url_vars, score_vars, pair_vars, loop_vars, agent_vars>>
    /\ exc' = Some(ExtractError(clean_url[1], exc[1]))
    /\ pc' = "extract_finally"
    /\ UNCHANGED <<url, url_is_str, clean_url, driver, launches, quits,
                   navigations, html_content, soup, special_elements,
                   main_content, markdown_parts, markdown_content, result,
                   caught, escaped>>

\* Fault variant of ExtractFinally: quit() sits at the end of the try body,
\* so it runs only when nothing was raised
ExtractFinally_QuitOnSuccessOnly ==
    /\ pc = "extract_finally"
    /\ UNCHANGED <<url_vars, score_vars, pair_vars, loop_vars, agent_vars>>
    /\ IF driver = "open" /\ exc = None
       THEN driver' = "quit" /\ quits' = quits + 1
       ELSE UNCHANGED <<driver, quits>>
    /\ pc' = IF exc # None THEN "pipeline_except" ELSE "parse"
    /\ UNCHANGED <<url, url_is_str, clean_url, launches, navigations, exc,
                   html_content, soup, special_elements, main_content,
                   markdown_parts, markdown_content, result, caught, escaped>>

\* finally: if driver: driver.quit()
ExtractFinally ==
    /\ pc = "extract_finally"
    /\ UNCHANGED <<url_vars, score_vars, pair_vars, loop_vars, agent_vars>>
    /\ IF driver = "open"
       THEN driver' = "quit" /\ quits' = quits + 1
       ELSE UNCHANGED <<driver, quits>>
    /\ pc' = IF exc # None THEN "pipeline_except" ELSE "parse"
    /\ UNCHANGED <<url, url_is_str, clean_url, launches, navigations, exc,
                   html_content, soup, special_elements, main_content,
                   markdown_parts, markdown_content, result, caught, escaped>>

\* Fault variant of Parse: the tree is cleaned as soon as it is parsed,
\* before the special elements are taken from it
Parse_AlsoCleans ==
    /\ pc = "parse"
    /\ UNCHANGED <<url_vars, score_vars, pair_vars, loop_vars, agent_vars>>
    /\ soup' = clean_html_content(ParseHtml(html_content[1]))
    /\ pc' = "special"
    /\ UNCHANGED <<url, url_is_str, clean_url, driver, launches, quits,
                   navigations, exc, html_content, special_elements,
                   main_content, markdown_parts, markdown_content, result,
                   caught, escaped>>

\* soup = BeautifulSoup(html_content, 'html.parser')
Parse ==
    /\ pc = "parse"
    /\ UNCHANGED <<url_vars, score_vars, pair_vars, loop_vars, agent_vars>>
    /\ soup' = ParseHtml(html_content[1])
    /\ pc' = "special"
    /\ UNCHANGED <<url, url_is_str, clean_url, driver, launches, quits,
                   navigations, exc, html_content, special_elements,
                   main_content, markdown_parts, markdown_content, result,
                   caught, escaped>>

\* Fault variant of ParseSpecial: the special elements are taken from the
\* tree after cleaning
ParseSpecial_AfterClean ==
    /\ pc = "special"
    /\ UNCHANGED <<url_vars, score_vars, pair_vars, loop_vars, agent_vars>>
    /\ special_elements' = parse_special_elements(clean_html_content(soup))
    /\ pc' = "clean"
    /\ UNCHANGED <<url, url_is_str, clean_url, driver, launches, quits,
                   navigations, exc, html_content, soup, main_content,
                   markdown_parts, markdown_content, result, caught, escaped>>

\* special_elements = parse_special_elements(soup)
ParseSpecial ==
    /\ pc = "special"
    /\ UNCHANGED <<url_vars, score_vars, pair_vars, loop_vars, agent_vars>>
    /\ special_elements' = parse_special_elements(soup)
    /\ pc' = "clean"
    /\ UNCHANGED <<url, url_is_str, clean_url, driver, launches, quits,
                   navigations, exc, html_content, soup, main_content,
                   markdown_parts, markdown_content, result, caught, escaped>>

\* cleaned_soup = clean_html_content(soup): the same tree, cleaned in place
Clean ==
    /\ pc = "clean"
    /\ UNCHANGED <<url_vars, score_vars, pair_vars, loop_vars, agent_vars>>
    /\ soup' = clean_html_content(soup)
    /\ pc' = "rank"
    /\ UNCHANGED <<url, url_is_str, clean_url, driver, launches, quits,
                   navigations, exc, html_content, special_elements,
                   main_content, markdown_parts, markdown_content, result,
                   caught, escaped>>

\* main_content = rank_content_by_importance(cleaned_soup)
Rank ==
    /\ pc = "rank"
    /\ UNCHANGED <<url_vars, score_vars, pair_vars, loop_vars, agent_vars>>
    /\ main_content' = rank_content_by_importance(soup)
    /\ pc' = "compose"
    /\ UNCHANGED <<url, url_is_str, clean_url, driver, launches, quits,
                   navigations, exc, html_content, soup, special_elements,
                   markdown_parts, markdown_content, result, caught, escaped>>

\* markdown_result = convert_to_markdown(special_elements, main_content)
\* return markdown_result
Compose ==
    /\ pc = "compose"
    /\ UNCHANGED <<url_vars, score_vars, pair_vars, loop_vars, agent_vars>>
    /\ IF ComposeMain(soup, main_content, {}, <<>>).raised
       THEN /\ exc' = Some("invalid literal for int() with base 10")
            /\ pc' = "pipeline_except"
            /\ UNCHANGED <<markdown_parts, markdown_content>>
       ELSE /\ markdown_parts' = MarkdownParts(soup, special_elements, main_content)
            /\ markdown_content' =
                   Some(convert_to_markdown(soup, special_elements, main_content))
            /\ pc' = "return"
            /\ UNCHANGED exc
    /\ UNCHANGED <<url, url_is_str, clean_url, driver, launches, quits,
                   navigations, html_content, soup, special_elements,
                   main_content, result, caught, escaped>>

\* a processing stage raises (the parser or a tree walk on a page the host
\* cannot handle, such as RecursionError on deep nesting)
StageRaises ==
    /\ pc \in {"parse", "special", "clean", "rank", "compose"}
    /\ UNCHANGED <<url_vars, score_vars, pair_vars, loop_vars, agent_vars>>
    /\ exc' = Some("maximum recursion depth exceeded")
    /\ pc' = "pipeline_except"
    /\ UNCHANGED <<url, url_is_str, clean_url, driver, launches, quits,
                   navigations, html_content, soup, special_elements,
                   main_content, markdown_parts, markdown_content, result,
                   caught, escaped>>

\* url_to_markdown: except Exception as e: return f"Error processing URL ..."
PipelineExcept ==
    /\ pc = "pipeline_except"
    /\ UNCHANGED <<url_vars, score_vars, pair_vars, loop_vars, agent_vars>>
    /\ caught' = exc
    /\ exc' = None
    /\ markdown_content' = Some(ProcessingError(url, exc[1]))
    /\ pc' = "return"
    /\ UNCHANGED <<url, url_is_str, clean_url, driver, launches, quits,
                   navigations, html_content, soup, special_elements,
                   main_content, markdown_parts, result, escaped>>

\* execute: return {'success': True, ..., 'metadata': {'url': url, ...}}
Return ==
    /\ pc = "return"
    /\ UNCHANGED <<url_vars, score_vars, pair_vars, loop_vars, agent_vars>>
    /\ result' = Some(SuccessResult(url, markdown_content[1]))
    /\ pc' = "done"
    /\ UNCHANGED <<url, url_is_str, clean_url, driver, launches, quits,
                   navigations, exc, html_content, soup, special_elements,
                   main_content, markdown_parts, markdown_content, caught,
                   escaped>>

\* Fault variant of ExecuteExcept: execute has no handler of its own
ExecuteExcept_Reraise ==
    /\ pc = "execute_except"
    /\ UNCHANGED <<url_vars, score_vars, pair_vars, loop_vars, agent_vars>>
    /\ escaped' = TRUE
    /\ pc' = "done"
    /\ UNCHANGED <<url, url_is_str, clean_url, driver, launches, quits,
                   navigations, exc, html_content, soup, special_elements,
                   main_content, markdown_parts, markdown_content, result,
                   caught>>

\* execute: except Exception as e: return {'success': False, 'error': str(e), ...}
ExecuteExcept ==
    /\ pc = "execute_except"
    /\ UNCHANGED <<url_vars, score_vars, pair_vars, loop_vars, agent_vars>>
    /\ result' = Some(FailureResult(exc[1]))
    /\ exc' = None
    /\ pc' = "done"
    /\ UNCHANGED <<url, url_is_str, clean_url, driver, launches, quits,
                   navigations, html_content, soup, special_elements,
                   main_content, markdown_parts, markdown_content, caught,
                   escaped>>

\* the call is over; the skill keeps nothing between calls
Reset ==
    /\ pc = "done"
    /\ UNCHANGED <<url_vars, score_vars, pair_vars, loop_vars, agent_vars>>
    /\ pc' = "idle"
    /\ url' = ""
    /\ url_is_str' = TRUE
    /\ clean_url' = None
    /\ driver' = "none"
    /\ launches' = 0
    /\ quits' = 0
    /\ navigations' = <<>>
    /\ exc' = None
    /\ html_content' = None
    /\ soup' = EmptyTree
    /\ special_elements' = EmptySpecial
    /\ main_content' = <<>>
    /\ markdown_parts' = <<>>
    /\ markdown_content' = None
    /\ result' = None
    /\ caught' = None
    /\ escaped' = FALSE

---------------------------------------------------------------------------
(* The specification of one skill instance serving calls one after another *)

\* the locals of a url_to_markdown call (with those of the
\* extract_html_content call inside it) and what execute returned
EmptyFrame ==
    [url |-> "", clean_url |-> None, driver |-> None, exc |-> None,
     html_content |-> None, soup |-> EmptyTree,
     special_elements |-> EmptySpecial, main_content |-> <<>>,
     markdown_content |-> None, result |-> None]

InitPairIdle ==
    /\ calls = <<"", "">>
    /\ fault = <<"none", "none">>
    /\ ppc = <<"idle", "idle">>
    /\ frame = <<EmptyFrame, EmptyFrame>>
    /\ sessions = <<>>

InitLoopIdle ==
    /\ loop_running = "none"
    /\ tool_pc = "idle"
    /\ tool_url = ""
    /\ stream_pc = "idle"
    /\ chunks_sent = 0

InitScoreIdle ==
    /\ s_name = ""
    /\ s_chain = <<>>
    /\ s_len = 0
    /\ s_score = 0

InitComposeIdle ==
    /\ c_soup = EmptyTree
    /\ c_main = <<>>
    /\ c_parts = <<>>
    /\ c_raised = FALSE
    /\ c_pc = "idle"

InitExecIdle ==
    /\ e_pc = "idle"
    /\ user_message = ""
    /\ e_context_id = ""
    /\ e_task_id = ""
    /\ e_final_response = None
    /\ response_text = ""
    /\ event_queue = <<>>
    /\ e_exc = None

InitReasonIdle ==
    /\ r_pc = "idle"
    /\ r_client = FALSE
    /\ iteration = 0
    /\ executed_actions = <<>>
    /\ decision = None
    /\ decisions_requested = 0
    /\ final_calls = 0
    /\ response = None

InitHistIdle ==
    /\ conversation_history = <<>>
    /\ completed = <<>>
    /\ h_pc = <<"idle", "idle">>
    /\ h_ctx = <<"", "">>
    /\ h_query = <<0, 0>>
    /\ h_response = <<None, None>>
    /\ h_sent = <<0, 0>>

InitAgentIdle ==
    InitComposeIdle /\ InitExecIdle /\ InitReasonIdle /\ InitHistIdle

Init ==
    /\ InitPipeline /\ InitUrlIdle /\ InitScoreIdle /\ InitPairIdle
    /\ InitLoopIdle /\ InitAgentIdle

Next ==
    \/ Execute \/ Validate \/ Normalize \/ Launch \/ Navigate \/ Snapshot
    \/ ExtractExcept \/ ExtractFinally \/ Parse \/ ParseSpecial \/ Clean
    \/ Rank \/ Compose \/ StageRaises \/ PipelineExcept \/ Return
    \/ ExecuteExcept \/ Reset

Spec == Init /\ [][Next]_vars

---------------------------------------------------------------------------
(* validate_url and ensure_url_scheme applied to every bounded input *)

InitUrl ==
    /\ InitPipeline
    /\ InitScoreIdle
    /\ InitPairIdle
    /\ InitLoopIdle
    /\ InitAgentIdle
    /\ u_in \in UrlInputs
    /\ u_valid = None
    /\ u_once = None
    /\ u_twice = None

UrlValidate ==
    /\ u_valid = None
    /\ u_valid' = Some(validate_url(u_in))
    /\ UNCHANGED <<u_in, u_once, u_twice, pipeline_vars, score_vars, pair_vars, loop_vars, agent_vars>>

UrlEnsure ==
    /\ u_once = None
    /\ u_once' = Some(ensure_url_scheme(u_in))
    /\ UNCHANGED <<u_in, u_valid, u_twice, pipeline_vars, score_vars, pair_vars, loop_vars, agent_vars>>

UrlEnsureAgain ==
    /\ u_once # None
    /\ u_twice = None
    /\ u_twice' = Some(ensure_url_scheme(u_once[1]))
    /\ UNCHANGED <<u_in, u_valid, u_once, pipeline_vars, score_vars, pair_vars, loop_vars, agent_vars>>

NextUrl == UrlValidate \/ UrlEnsure \/ UrlEnsureAgain

SpecUrl == InitUrl /\ [][NextUrl]_vars

---------------------------------------------------------------------------
(* calculate_element_score applied to one element whose text grows *)

\* the tag names the scoring harness draws the element from
ScoreTags == SeqToSet(content_tags) \cup {"a"}
\* the tag names it draws the ancestors from
ChainTags == {"main", "article", "section", "body", "div", "span"}

RECURSIVE Chains(_)
Chains(n) ==
    IF n = 0 THEN {<<>>}
    ELSE Chains(n - 1) \cup {Append(c, t) : c \in Chains(n - 1), t \in ChainTags}

\* a text of MaxTextLen characters
LongText == Repeat("x", MaxTextLen)

\* the tree <c_n>...<c_1><name>xxx...</name></c_1>...</c_n>, the element's
\* ancestors given nearest first, and the index of the element in it
ElementTree(name, chain, text_length) ==
    LET depth == Len(chain)
    IN  ParseHtml([k \in 1..(depth + 2) |->
            IF k <= depth THEN Under(Elem(chain[depth + 1 - k]), k - 1)
            ELSE IF k = depth + 1 THEN Under(Elem(name), depth)
            ELSE Under(Text(SubSeq(LongText, 1, text_length)), depth + 1)])

HarnessScore(name, chain, text_length) ==
    calculate_element_score(ElementTree(name, chain, text_length), Len(chain) + 1)

InitScore ==
    /\ InitPipeline
    /\ InitUrlIdle
    /\ InitPairIdle
    /\ InitLoopIdle
    /\ InitAgentIdle
    /\ s_name \in ScoreTags
    /\ s_chain \in Chains(MaxDepth)
    /\ s_len = 0
    /\ s_score = HarnessScore(s_name, s_chain, 0)

\* the same element with one more character of text is scored
Lengthen ==
    /\ s_len < MaxTextLen
    /\ s_len' = s_len + 1
    /\ s_score' = HarnessScore(s_name, s_chain, s_len + 1)
    /\ UNCHANGED <<s_name, s_chain, pipeline_vars, url_vars, pair_vars, loop_vars, agent_vars>>

NextScore == Lengthen

SpecScore == InitScore /\ [][NextScore]_vars

---------------------------------------------------------------------------
(* Two calls of execute for different URLs running at the same time (two   *)
(* threads, or two processes' worth of statements interleaved): each call  *)
(* has its own position and its own locals; the browser sessions of the    *)
(* host are the one thing they both reach.                                 *)

Invocations == {1, 2}

\* what can fail in a call: the launch, driver.get, page_source, the parser
Faults == {"none", "launch", "navigate", "snapshot", "parse"}

FaultCause(f) ==
    IF f = "launch" THEN "chrome not reachable"
    ELSE IF f = "navigate" THEN "page load timeout"
    ELSE IF f = "snapshot" THEN "invalid session id"
    ELSE "maximum recursion depth exceeded"

\* the page the web serves at a URL while the two calls run
WebOf(u) ==
    IF u = "https://example.com" THEN DuplicateTextPage
    ELSE IF u = "http://x.com" THEN SidebarPage
    ELSE <<>>

\* Fault variant of FrameOf: the locals are module-level variables, one set
\* for every call
FrameOf_ModuleLevel(i) == 1

\* the frame that holds the locals of call i: every call has its own
FrameOf(i) == i

Local(i) == frame[FrameOf(i)]

SetLocal(i, f) == frame' = [frame EXCEPT ![FrameOf(i)] = f]

Goto(i, label) == ppc' = [ppc EXCEPT ![i] = label]

\* what execute(u) returns when it runs alone and f is what fails
AloneResult(u, f) ==
    IF ~validate_url(u) THEN InvalidResult
    ELSE LET c == ensure_url_scheme(u)
         IN  IF f \in {"launch", "navigate", "snapshot"}
             THEN SuccessResult(u, ProcessingError(u, ExtractError(c, FaultCause(f))))
             ELSE IF f = "parse"
             THEN SuccessResult(u, ProcessingError(u, FaultCause(f)))
             ELSE LET tree == ParseHtml(WebOf(c))
                      special == parse_special_elements(tree)
                      cleaned == clean_html_content(tree)
                      main == rank_content_by_importance(cleaned)
                  IN  SuccessResult(u, convert_to_markdown(cleaned, special, main))

InitPair ==
    /\ InitPipeline
    /\ InitUrlIdle
    /\ InitScoreIdle
    /\ InitLoopIdle
    /\ InitAgentIdle
    /\ calls \in {c \in PipelineUrls \X PipelineUrls : c[1] # c[2]}
    /\ fault \in Faults \X Faults
    /\ ppc = <<"start", "start">>
    /\ frame = <<EmptyFrame, EmptyFrame>>
    /\ sessions = <<>>

\* execute(url) is entered
PairExecute(i) ==
    /\ ppc[i] = "start"
    /\ UNCHANGED <<pipeline_vars, url_vars, score_vars, loop_vars, agent_vars>>
    /\ SetLocal(i, [Local(i) EXCEPT !.url = calls[i]])
    /\ Goto(i, "validate")
    /\ UNCHANGED <<calls, fault, sessions>>

\* if not validate_url(url): return {...}
PairValidate(i) ==
    /\ ppc[i] = "validate"
    /\ UNCHANGED <<pipeline_vars, url_vars, score_vars, loop_vars, agent_vars>>
    /\ IF validate_url(Local(i).url)
       THEN Goto(i, "normalize") /\ UNCHANGED frame
       ELSE /\ SetLocal(i, [Local(i) EXCEPT !.result = Some(InvalidResult)])
            /\ Goto(i, "done")
    /\ UNCHANGED <<calls, fault, sessions>>

\* clean_url = ensure_url_scheme(url)
PairNormalize(i) ==
    /\ ppc[i] = "normalize"
    /\ UNCHANGED <<pipeline_vars, url_vars, score_vars, loop_vars, agent_vars>>
    /\ SetLocal(i, [Local(i) EXCEPT
                       !.clean_url = Some(ensure_url_scheme(Local(i).url))])
    /\ Goto(i, "launch")
    /\ UNCHANGED <<calls, fault, sessions>>

\* driver = webdriver.Chrome(options=chrome_options): a new session
PairLaunch(i) ==
    /\ ppc[i] = "launch"
    /\ UNCHANGED <<pipeline_vars, url_vars, score_vars, loop_vars, agent_vars>>
    /\ IF fault[i] = "launch"
       THEN /\ SetLocal(i, [Local(i) EXCEPT !.exc = Some(FaultCause("launch"))])
            /\ Goto(i, "extract_except")
            /\ UNCHANGED sessions
       ELSE /\ sessions' = Append(sessions, [state |-> "open", page |-> None])
            /\ SetLocal(i, [Local(i) EXCEPT !.driver = Some(Len(sessions) + 1)])
            /\ Goto(i, "navigate")
    /\ UNCHANGED <<calls, fault>>

\* driver.get(url): the session of this call's driver loads the page
PairNavigate(i) ==
    /\ ppc[i] = "navigate"
    /\ UNCHANGED <<pipeline_vars, url_vars, score_vars, loop_vars, agent_vars>>
    /\ IF fault[i] = "navigate"
       THEN /\ SetLocal(i, [Local(i) EXCEPT !.exc = Some(FaultCause("navigate"))])
            /\ Goto(i, "extract_except")
            /\ UNCHANGED sessions
       ELSE /\ sessions' = [sessions EXCEPT ![Local(i).driver[1]].page =
                               Some(WebOf(Local(i).clean_url[1]))]
            /\ Goto(i, "snapshot")
            /\ UNCHANGED frame
    /\ UNCHANGED <<calls, fault>>

\* html_content = driver.page_source
PairSnapshot(i) ==
    /\ ppc[i] = "snapshot"
    /\ UNCHANGED <<pipeline_vars, url_vars, score_vars, loop_vars, agent_vars>>
    /\ IF fault[i] = "snapshot"
       THEN /\ SetLocal(i, [Local(i) EXCEPT !.exc = Some(FaultCause("snapshot"))])
            /\ Goto(i, "extract_except")
       ELSE /\ SetLocal(i, [Local(i) EXCEPT
                               !.html_content = sessions[Local(i).driver[1]].page])
            /\ Goto(i, "extract_finally")
    /\ UNCHANGED <<calls, fault, sessions>>

\* except Exception as e: raise Exception(f"Failed to extract content ...")
PairExtractExcept(i) ==
    /\ ppc[i] = "extract_except"
    /\ UNCHANGED <<pipeline_vars, url_vars, score_vars, loop_vars, agent_vars>>
    /\ SetLocal(i, [Local(i) EXCEPT
                       !.exc = Some(ExtractError(Local(i).clean_url[1],
                                                 Local(i).exc[1]))])
    /\ Goto(i, "extract_finally")
    /\ UNCHANGED <<calls, fault, sessions>>

\* finally: if driver: driver.quit()
PairExtractFinally(i) ==
    /\ ppc[i] = "extract_finally"
    /\ UNCHANGED <<pipeline_vars, url_vars, score_vars, loop_vars, agent_vars>>
    /\ IF Local(i).driver # None
       THEN sessions' = [sessions EXCEPT ![Local(i).driver[1]].state = "quit"]
       ELSE UNCHANGED sessions
    /\ Goto(i, IF Local(i).exc # None THEN "pipeline_except" ELSE "parse")
    /\ UNCHANGED <<calls, fault, frame>>

\* soup = BeautifulSoup(html_content, 'html.parser')
PairParse(i) ==
    /\ ppc[i] = "parse"
    /\ UNCHANGED <<pipeline_vars, url_vars, score_vars, loop_vars, agent_vars>>
    /\ IF fault[i] = "parse"
       THEN /\ SetLocal(i, [Local(i) EXCEPT !.exc = Some(FaultCause("parse"))])
            /\ Goto(i, "pipeline_except")
       ELSE /\ SetLocal(i, [Local(i) EXCEPT
                               !.soup = ParseHtml(Local(i).html_content[1])])
            /\ Goto(i, "special")
    /\ UNCHANGED <<calls, fault, sessions>>

\* special_elements = parse_special_elements(soup)
PairParseSpecial(i) ==
    /\ ppc[i] = "special"
    /\ UNCHANGED <<pipeline_vars, url_vars, score_vars, loop_vars, agent_vars>>
    /\ SetLocal(i, [Local(i) EXCEPT
                       !.special_elements = parse_special_elements(Local(i).soup)])
    /\ Goto(i, "clean")
    /\ UNCHANGED <<calls, fault, sessions>>

\* cleaned_soup = clean_html_content(soup)
PairClean(i) ==
    /\ ppc[i] = "clean"
    /\ UNCHANGED <<pipeline_vars, url_vars, score_vars, loop_vars, agent_vars>>
    /\ SetLocal(i, [Local(i) EXCEPT !.soup = clean_html_content(Local(i).soup)])
    /\ Goto(i, "rank")
    /\ UNCHANGED <<calls, fault, sessions>>

\* main_content = rank_content_by_importance(cleaned_soup)
PairRank(i) ==
    /\ ppc[i] = "rank"
    /\ UNCHANGED <<pipeline_vars, url_vars, score_vars, loop_vars, agent_vars>>
    /\ SetLocal(i, [Local(i) EXCEPT
                       !.main_content = rank_content_by_importance(Local(i).soup)])
    /\ Goto(i, "compose")
    /\ UNCHANGED <<calls, fault, sessions>>

\* markdown_result = convert_to_markdown(special_elements, main_content)
PairCompose(i) ==
    /\ ppc[i] = "compose"
    /\ UNCHANGED <<pipeline_vars, url_vars, score_vars, loop_vars, agent_vars>>
    /\ SetLocal(i, [Local(i) EXCEPT
                       !.markdown_content =
                           Some(convert_to_markdown(Local(i).soup,
                                                    Local(i).special_elements,
                                                    Local(i).main_content))])
    /\ Goto(i, "return")
    /\ UNCHANGED <<calls, fault, sessions>>

\* except Exception as e: return f"Error processing URL {url}: {str(e)}"
PairExcept(i) ==
    /\ ppc[i] = "pipeline_except"
    /\ UNCHANGED <<pipeline_vars, url_vars, score_vars, loop_vars, agent_vars>>
    /\ SetLocal(i, [Local(i) EXCEPT
                       !.markdown_content =
                           Some(ProcessingError(Local(i).url, Local(i).exc[1]))])
    /\ Goto(i, "return")
    /\ UNCHANGED <<calls, fault, sessions>>

\* return {'success': True, 'error': None, 'result': result, 'metadata': ...}
PairReturn(i) ==
    /\ ppc[i] = "return"
    /\ UNCHANGED <<pipeline_vars, url_vars, score_vars, loop_vars, agent_vars>>
    /\ SetLocal(i, [Local(i) EXCEPT
                       !.result = Some(SuccessResult(Local(i).url,
                                                     Local(i).markdown_content[1]))])
    /\ Goto(i, "done")
    /\ UNCHANGED <<calls, fault, sessions>>

NextPair ==
    \E i \in Invocations :
        \/ PairExecute(i) \/ PairValidate(i) \/ PairNormalize(i)
        \/ PairLaunch(i) \/ PairNavigate(i) \/ PairSnapshot(i)
        \/ PairExtractExcept(i) \/ PairExtractFinally(i) \/ PairParse(i)
        \/ PairParseSpecial(i) \/ PairClean(i) \/ PairRank(i)
        \/ PairCompose(i) \/ PairExcept(i) \/ PairReturn(i)

SpecPair == InitPair /\ [][NextPair]_vars

---------------------------------------------------------------------------
(* The asyncio event loop of the agent: one thread runs one coroutine at a *)
(* time, until that coroutine awaits something that is not ready. Two      *)
(* coroutines: QAAgent._execute_tool awaiting WebAnalyzerSkill.execute,    *)
(* and QAAgent._stream_response sending the answer of another request     *)
(* chunk by chunk with await asyncio.sleep(0.01) between chunks.           *)

\* the statements of execute and url_to_markdown, in order; none of them is
\* an await, time.sleep(2) included
ToolStages ==
    <<"validate", "normalize", "launch", "navigate", "sleep", "snapshot",
      "quit", "parse", "special", "clean", "rank", "compose", "return">>

\* the stages inside url_to_markdown, from the launch of the browser on
RenderStages ==
    {"launch", "navigate", "sleep", "snapshot", "quit", "parse", "special",
     "clean", "rank", "compose"}

StageAfter(stage) ==
    LET k == CHOOSE j \in 1..Len(ToolStages) : ToolStages[j] = stage
    IN  ToolStages[k + 1]

InitLoop ==
    /\ InitPipeline
    /\ InitUrlIdle
    /\ InitScoreIdle
    /\ InitPairIdle
    /\ InitAgentIdle
    /\ loop_running = "none"
    /\ tool_pc = "ready"
    /\ tool_url \in PipelineUrls
    /\ stream_pc \in {"idle", "ready"}
    /\ chunks_sent = 0

\* the loop resumes _execute_tool: result = await self.web_analyzer.execute(url)
\* enters execute on the loop's thread
LoopRunTool ==
    /\ loop_running = "none"
    /\ tool_pc = "ready"
    /\ loop_running' = "tool"
    /\ tool_pc' = "validate"
    /\ UNCHANGED <<tool_url, stream_pc, chunks_sent>>
    /\ UNCHANGED <<pipeline_vars, url_vars, score_vars, pair_vars, agent_vars>>

\* the next statement of execute / url_to_markdown runs, on the thread that
\* entered execute; an invalid URL returns at once
ToolStep ==
    /\ loop_running = "tool"
    /\ tool_pc \in SeqToSet(ToolStages) \ {"return"}
    /\ tool_pc' = IF tool_pc = "validate" /\ ~validate_url(tool_url)
                  THEN "return"
                  ELSE StageAfter(tool_pc)
    /\ UNCHANGED <<loop_running, tool_url, stream_pc, chunks_sent>>
    /\ UNCHANGED <<pipeline_vars, url_vars, score_vars, pair_vars, agent_vars>>

\* execute returns its record and _execute_tool returns: the coroutine is
\* over and the thread goes back to the loop
ToolReturn ==
    /\ loop_running = "tool"
    /\ tool_pc = "return"
    /\ tool_pc' = "done"
    /\ loop_running' = "none"
    /\ UNCHANGED <<tool_url, stream_pc, chunks_sent>>
    /\ UNCHANGED <<pipeline_vars, url_vars, score_vars, pair_vars, agent_vars>>

\* the 0.01 s of asyncio.sleep are over: the loop can resume the stream
TimerExpires ==
    /\ stream_pc = "sleeping"
    /\ stream_pc' = "ready"
    /\ UNCHANGED <<loop_running, tool_pc, tool_url, chunks_sent>>
    /\ UNCHANGED <<pipeline_vars, url_vars, score_vars, pair_vars, agent_vars>>

\* the loop resumes _stream_response
LoopRunStream ==
    /\ loop_running = "none"
    /\ stream_pc = "ready"
    /\ chunks_sent < MaxChunks
    /\ loop_running' = "stream"
    /\ stream_pc' = "running"
    /\ UNCHANGED <<tool_pc, tool_url, chunks_sent>>
    /\ UNCHANGED <<pipeline_vars, url_vars, score_vars, pair_vars, agent_vars>>

\* yield response[i:i + chunk_size]; await asyncio.sleep(0.01)
StreamChunk ==
    /\ loop_running = "stream"
    /\ stream_pc = "running"
    /\ chunks_sent' = chunks_sent + 1
    /\ stream_pc' = IF chunks_sent + 1 = MaxChunks THEN "finished" ELSE "sleeping"
    /\ loop_running' = "none"
    /\ UNCHANGED <<tool_pc, tool_url>>
    /\ UNCHANGED <<pipeline_vars, url_vars, score_vars, pair_vars, agent_vars>>

NextLoop ==
    \/ LoopRunTool \/ ToolStep \/ ToolReturn
    \/ TimerExpires \/ LoopRunStream \/ StreamChunk

SpecLoop == InitLoop /\ [][NextLoop]_vars

---------------------------------------------------------------------------
(* Properties *)

\* the call has returned a markdown document that no handler produced
Succeeded == pc = "done" /\ caught = None /\ html_content # None

\* C1: whenever a stage raises inside url_to_markdown, execute returns
\* success = false, result = null and the error "Error processing URL
\* {url}: {cause}"; never success = true with the error text as the document.
C1_StageFailureIsFailureResult ==
    (pc = "done" /\ caught # None) =>
        result = Some(FailureResult(ProcessingError(url, caught[1])))

\* C2: for every input and every failing stage, execute returns a record
\* with a success flag and no exception leaves it.
C2_ExecuteReturnsRecord ==
    /\ ~escaped
    /\ pc = "done" =>
          /\ exc = None
          /\ result # None
          /\ result[1].success \in BOOLEAN

\* validation itself raised (a non-string argument) and came back as a record
C2_Witness ==
    /\ pc = "done"
    /\ ~url_is_str
    /\ result = Some(FailureResult("expected string or bytes-like object"))

\* C3: an input string that fails validate_url gives the "Invalid URL format"
\* failure, and the call launches no browser, navigates nowhere and never
\* normalizes the URL.
C3_InvalidUrlNoRender ==
    (pc # "idle" /\ url_is_str /\ ~validate_url(url)) =>
        /\ pc \in {"validate", "done"}
        /\ launches = 0
        /\ navigations = <<>>
        /\ driver = "none"
        /\ clean_url = None
        /\ pc = "done" => result = Some(InvalidResult)

C3_Witness ==
    /\ pc = "done"
    /\ url = "not a url at all with spaces"
    /\ result = Some(InvalidResult)
    /\ launches = 0

\* the positions of extract_html_content
ExtractPcs == {"launch", "navigate", "snapshot", "extract_except", "extract_finally"}

\* C4: a session that was launched is quit exactly once before
\* extract_html_content returns or raises; none stays open after it.
C4_SessionQuitExactlyOnce ==
    /\ launches <= 1
    /\ quits <= launches
    /\ (driver = "open") <=> (launches = 1 /\ quits = 0)
    /\ pc \notin ExtractPcs => (quits = launches /\ driver # "open")

\* navigation (or reading the page source) raised, and the session was quit
C4_Witness ==
    /\ pc = "pipeline_except"
    /\ navigations # <<>>
    /\ html_content = None
    /\ launches = 1
    /\ quits = 1
    /\ driver = "quit"

\* the <img> elements with a non-empty src of a page, in document order
ImgsWithSrc(page) ==
    InOrder({a \in 1..Len(page) :
                page[a].kind = "tag" /\ page[a].name = "img" /\ page[a].src # ""})

\* parse_special_elements has run and no handler has replaced the outcome
SpecialDone ==
    \/ pc \in {"clean", "rank", "compose"}
    \/ pc = "return" /\ caught = None
    \/ Succeeded

\* C5: the bundle's images are those of the page as parsed, before any node
\* was removed, at every later point of the call; each of the first five is
\* a line of the Images section of the output.
C5_ImagesFromOriginalPage ==
    SpecialDone =>
        LET page == html_content[1]
            imgs == ImgsWithSrc(page)
            shown == IF Len(imgs) < 5 THEN Len(imgs) ELSE 5
        IN  /\ special_elements.images =
                   [k \in 1..Len(imgs) |-> ImageLine(page[imgs[k]])]
            /\ (pc \in {"return", "done"} /\ imgs # <<>>) =>
                  \E h \in 1..Len(markdown_parts) :
                      /\ markdown_parts[h] = "## Images"
                      /\ h + shown <= Len(markdown_parts)
                      /\ \A k \in 1..shown :
                            markdown_parts[h + k] = ImageLine(page[imgs[k]])

\* an <img> below a <nav> the Cleaner deleted is a line of the output
C5_Witness ==
    /\ Succeeded
    /\ \E a \in SeqToSet(ImgsWithSrc(html_content[1])) :
          /\ a \notin soup.alive
          /\ "nav" \in SeqToSet(AncestorNames(ParseHtml(html_content[1]), a))
          /\ ImageLine(html_content[1][a]) \in SeqToSet(markdown_parts)

\* the call has returned the document of the example page
ExampleDone == Succeeded /\ html_content = Some(ExamplePage)

\* the main-content blocks of the output
MainBlocks == SeqToSet(ComposeMain(soup, main_content, {}, <<>>).parts)

\* a line follows the "## Images" header within the parts
UnderImages(line) ==
    \E h \in 1..Len(markdown_parts) : \E k \in (h + 1)..Len(markdown_parts) :
        markdown_parts[h] = "## Images" /\ markdown_parts[k] = line

\* C6 as stated: for the example page the output has the header line
\* "# Title", neither "Short" nor the nav anchor in the main content, and
\* "![](a.png)" under "## Images".
C6_ExampleOutput_AsStated ==
    ExampleDone =>
        /\ "# Title" \in SeqToSet(markdown_parts)
        /\ "Short" \notin MainBlocks
        /\ "[Menu](/x)" \notin MainBlocks
        /\ "Menu" \notin MainBlocks
        /\ UnderImages("![](a.png)")

\* C6 amended: for the example page the output has no main-content block at
\* all ("Title" and "Short" are both under 10 characters), so no "# Title"
\* line; "![](a.png)" is under "## Images" and the nav anchor appears only as
\* the line "[Menu](/x)" under "## Important Links".
C6_ExampleOutput ==
    ExampleDone =>
        /\ MainBlocks = {}
        /\ "# Title" \notin SeqToSet(markdown_parts)
        /\ UnderImages("![](a.png)")
        /\ markdown_parts =
               <<"## Images", "![](a.png)", "", "## Important Links", "[Menu](/x)">>
        /\ markdown_content =
               Some("## Images\n![](a.png)\n\n## Important Links\n[Menu](/x)")
        /\ result[1].result = markdown_content

C6_Witness == ExampleDone /\ result[1].success /\ main_content # <<>>

\* the string starts with http:// or https:// in a letter case validate_url's
\* scheme group matches
HasHttpScheme(s) == LitAt(s, 1, "http://") \/ LitAt(s, 1, "https://")

\* C7: ensure_url_scheme prepends "https://" to an input without a scheme,
\* leaves an input with an http:// or https:// scheme (in any letter case
\* validate_url accepts) unchanged, and applying it twice equals once.
C7_SchemeNormalization ==
    /\ u_once # None =>
          u_once[1] = IF HasHttpScheme(u_in) THEN u_in ELSE "https://" \o u_in
    /\ u_twice # None => u_twice = u_once

\* C8: in every success result metadata.url is the normalized URL that was
\* rendered, not the raw input.
C8_MetadataUrlIsNormalized ==
    (pc = "done" /\ result # None /\ result[1].success) =>
        /\ result[1].metadata[1].url = clean_url[1]
        /\ \A k \in 1..Len(navigations) : navigations[k] = result[1].metadata[1].url

\* clean_html_content has run and no handler has replaced the outcome
CleanDone ==
    \/ pc \in {"rank", "compose"}
    \/ pc = "return" /\ caught = None
    \/ Succeeded

\* a node the Cleaner removes: a denylisted tag name, a comment, or a class
\* or id containing a denylisted substring
Denylisted(node) ==
    \/ node.kind = "comment"
    \/ /\ node.kind = "tag"
       /\ \/ node.name \in SeqToSet(unwanted_tags)
          \/ \E k \in 1..Len(unwanted_patterns) :
                \/ SearchIgnoreCase(unwanted_patterns[k], node.class)
                \/ SearchIgnoreCase(unwanted_patterns[k], node.id)

\* C9: cleaning a cleaned tree removes nothing: no remaining node has a
\* denylisted tag name, class or id, and no comment remains.
C9_CleanIdempotent ==
    CleanDone =>
        /\ clean_html_content(soup) = soup
        /\ \A a \in soup.alive : ~Denylisted(soup.nodes[a])

\* the Cleaner removed some nodes of the page and kept others
C9_Witness ==
    /\ pc = "rank"
    /\ soup.alive # {}
    /\ \E a \in 1..Len(soup.nodes) :
          a \notin soup.alive /\ Denylisted(soup.nodes[a])

\* C10: with the tag name and the ancestor chain unchanged, a text at least
\* as long never scores lower, across the thresholds 10, 50 and 100.
C10_ScoreMonotoneInLength ==
    [][(s_name' = s_name /\ s_chain' = s_chain /\ s_len' >= s_len)
           => s_score' >= s_score]_vars

\* a <p> under <main> with 101 characters: 1.5 * 1.5 + 0.3
C10_Witness ==
    /\ s_name = "p"
    /\ s_chain = <<"main">>
    /\ s_len = 101
    /\ s_score = 2550

\* the trimmed text and the tag name of the k-th element of the ranked list
TextAt(k) == get_text(soup, main_content[k][1])
NameAt(k) == LowerStr(soup.nodes[main_content[k][1]].name)

\* the positions of the ranked list that carry a text no earlier position
\* carries and that is long enough to be emitted
Emitting ==
    {k \in 1..Len(main_content) :
        /\ Len(TextAt(k)) >= 10
        /\ \A j \in 1..(k - 1) : TextAt(j) # TextAt(k)}

\* one block and one blank line per emitting position, in list order
ExpectedMain ==
    LET order == InOrder(Emitting)
    IN  [n \in 1..(2 * Len(order)) |->
            IF n % 2 = 1
            THEN Render(NameAt(order[(n + 1) \div 2]), TextAt(order[(n + 1) \div 2]))
            ELSE ""]

\* C11: the main content holds one block per distinct trimmed text of the
\* ranked list, rendered with the tag of the earliest element carrying that
\* text; later elements with the same text emit nothing.
C11_DedupKeepsEarliest ==
    Succeeded =>
        /\ SubSeq(markdown_parts, 1, Len(ExpectedMain)) = ExpectedMain
        /\ Len(markdown_parts) =
               Len(ExpectedMain) + Len(CodeSection(special_elements))
               + Len(ImageSection(special_elements))
               + Len(LinkSection(special_elements))

\* a ranked list where a header and, after it, a paragraph and a list item
\* carry the same text of 12 characters
C11_Witness ==
    /\ Succeeded
    /\ html_content = Some(DuplicateTextPage)
    /\ \E j, k \in 1..Len(main_content) :
          /\ j < k
          /\ TextAt(j) = TextAt(k)
          /\ Len(TextAt(j)) >= 10
          /\ NameAt(j) # NameAt(k)
    /\ markdown_parts = <<"## Hello, world", "", "Another text", "">>

\* the link strings of a page, one per anchor with an href and a visible
\* text longer than 3 characters, in document order
LinkStrings(page) ==
    LET tree == ParseHtml(page)
        anchors == InOrder({a \in 1..Len(page) :
                       /\ page[a].kind = "tag"
                       /\ page[a].name = "a"
                       /\ page[a].href # ""
                       /\ Len(get_text(tree, a)) > 3})
    IN  [k \in 1..Len(anchors) |->
            LinkLine(get_text(tree, anchors[k]), page[anchors[k]].href)]

\* the positions of q holding a string no earlier position holds
FirstOccurrences(q) ==
    InOrder({k \in 1..Len(q) : \A j \in 1..(k - 1) : q[j] # q[k]})

Min(a, b) == IF a < b THEN a ELSE b

\* C12: the Important Links section holds min(10, d) lines, d being the
\* number of distinct link strings of the page: the first 10 distinct link
\* strings in first-occurrence order, none repeated.
C12_LinkSectionCap ==
    Succeeded =>
        LET q == LinkStrings(html_content[1])
            first == FirstOccurrences(q)
            n == Min(10, Len(first))
            len == Len(markdown_parts)
        IN  IF n = 0
            THEN "## Important Links" \notin SeqToSet(markdown_parts)
            ELSE /\ len >= n + 1
                 /\ SubSeq(markdown_parts, len - n, len) =
                        <<"## Important Links">> \o [k \in 1..n |-> q[first[k]]]

\* fifteen distinct links, one of them twice, give exactly ten lines
C12_Witness ==
    /\ Succeeded
    /\ html_content = Some(LinksPage)
    /\ Len(special_elements.links) = 16
    /\ Len(FirstOccurrences(LinkStrings(LinksPage))) = 15
    /\ Len(markdown_parts) = 11
    /\ markdown_parts[2] = "[Link a](/a)"
    /\ markdown_parts[3] = "[Link b](/b)"
    /\ markdown_parts[11] = "[Link j](/j)"

\* C13: the Images section holds exactly min(5, n) lines, n being the number
\* of <img> elements with a src in the page as parsed: the first ones in
\* document order, duplicates kept.
C13_ImageSectionCap ==
    Succeeded =>
        LET page == html_content[1]
            imgs == ImgsWithSrc(page)
            n == Min(5, Len(imgs))
        IN  IF n = 0
            THEN "## Images" \notin SeqToSet(markdown_parts)
            ELSE \E h \in 1..Len(markdown_parts) :
                    /\ markdown_parts[h] = "## Images"
                    /\ Len(markdown_parts) >= h + n + 1
                    /\ SubSeq(markdown_parts, h + 1, h + n) =
                           [k \in 1..n |-> ImageLine(page[imgs[k]])]
                    /\ markdown_parts[h + n + 1] = ""

\* eight images give exactly five lines, the first and the third the same
C13_Witness ==
    /\ Succeeded
    /\ html_content = Some(ImagesPage)
    /\ Len(special_elements.images) = 8
    /\ markdown_parts =
          <<"## Images", "![](a.png)", "![](b.png)", "![](a.png)",
            "![](c.png)", "![](d.png)", "">>

\* C14: under every interleaving of two calls for different URLs, each call
\* returns what it returns when it runs alone, and the two calls never hold
\* the same browser session.
C14_NoInterference ==
    /\ \A i \in Invocations :
          ppc[i] = "done" =>
              frame[i].result = Some(AloneResult(calls[i], fault[i]))
    /\ (frame[1].driver # None /\ frame[2].driver # None) =>
          frame[1].driver # frame[2].driver

\* call 2 launched its browser first and is still cleaning its tree when
\* call 1, launched after it, has returned its own document
C14_Witness ==
    /\ frame[2].driver = Some(1)
    /\ frame[1].driver = Some(2)
    /\ ppc[1] = "done"
    /\ ppc[2] = "clean"
    /\ sessions[1].state = "quit"
    /\ fault = <<"none", "none">>
    /\ calls = <<"example.com", "http://x.com">>
    /\ frame[1].result[1].success
    /\ frame[1].result[1].result =
          Some("## Hello, world\n\nAnother text\n")

\* C15: url_to_markdown runs on a worker thread, not on the event loop:
\* while a page is being rendered, a coroutine that is ready to run (the
\* stream of another answer, its timer expired) can be resumed by the loop.
C15_RenderOffloaded ==
    (tool_pc \in RenderStages /\ stream_pc = "ready" /\ chunks_sent < MaxChunks)
        => (loop_running # "tool" /\ ENABLED LoopRunStream)

\* a step of the call removes nodes from the parsed tree
Removes == soup'.nodes = soup.nodes /\ soup.alive \ soup'.alive # {}

\* the positions of a call after parse_special_elements has run
AfterSpecialPcs ==
    {"clean", "rank", "compose", "pipeline_except", "return", "done"}

\* C16 as stated: once special-element extraction has run, no step of the
\* same call removes a node from the parsed tree.
C16_NoRemovalAfterExtraction ==
    [][(pc \in AfterSpecialPcs /\ pc' # "idle") => ~Removes]_vars

\* C16: no node is removed before special-element extraction has run: the
\* tree extraction reads is whole, every removal is made by the Cleaner,
\* after the extraction and before the ranking, and it leaves the bundle as
\* extracted from the whole page.
C16_RemovalOnlyInCleaner ==
    [][/\ pc' = "special" => soup'.alive = 1..Len(soup'.nodes)
       /\ Removes =>
             /\ pc = "clean"
             /\ pc' = "rank"
             /\ special_elements = parse_special_elements(ParseHtml(html_content[1]))
             /\ special_elements' = special_elements]_vars

\* the Cleaner has removed the <nav> of the example page, after the link
\* below it was extracted
C16_Witness ==
    /\ pc = "rank"
    /\ html_content = Some(ExamplePage)
    /\ soup.alive = {1, 2, 3, 4, 8}
    /\ special_elements.links = <<"[Menu](/x)">>

\* sub in s
Contains(s, sub) ==
    \E q \in 1..(Len(s) - Len(sub) + 1) : SubSeq(s, q, q + Len(sub) - 1) = sub

\* what the browser raises, before any wrapping
RawCauses ==
    {"chrome not reachable", "page load timeout",
     "net::ERR_NAME_NOT_RESOLVED", "invalid session id"}

\* extract_html_content is being left, or was left, with an exception
ExtractFailed ==
    \/ pc \in {"extract_finally", "pipeline_except"} /\ exc # None
          /\ html_content = None
    \/ pc \in {"return", "done"} /\ caught # None /\ html_content = None

\* the exception that left extract_html_content
ExtractException == IF exc # None THEN exc[1] ELSE caught[1]

\* C17: a call launches at most one browser session and navigates at most
\* once, to the normalized URL; a failed launch or navigation is not retried
\* and leaves extract_html_content as one exception, the cause wrapped once,
\* whose message holds that URL.
C17_NoRetrySingleError ==
    /\ launches <= 1
    /\ Len(navigations) <= 1
    /\ navigations # <<>> => (launches = 1 /\ navigations = <<clean_url[1]>>)
    /\ ExtractFailed =>
          /\ Contains(ExtractException, clean_url[1])
          /\ \E cause \in RawCauses :
                ExtractException = ExtractError(clean_url[1], cause)

\* the page load of https://example.com timed out: one launch, one
\* navigation, one wrapped error, and the call is over
C17_Witness ==
    /\ pc = "done"
    /\ launches = 1
    /\ quits = 1
    /\ navigations = <<"https://example.com">>
    /\ caught = Some("Failed to extract content from https://example.com: page load timeout")

\* the score of the element is its base score: no ancestor, and a text of
\* 10 to 50 characters, neither boosted nor penalised
BaseScoreShows == s_chain = <<>> /\ s_len >= 10 /\ s_len <= 50

ContentTagSet == SeqToSet(content_tags)

\* the weights as stated, in tenths: blockquote has none and gets 0.5
StatedWeight(name) ==
    IF name = "h1" THEN 30
    ELSE IF name = "h2" THEN 25
    ELSE IF name \in {"h3", "table"} THEN 20
    ELSE IF name \in {"h4", "p"} THEN 15
    ELSE IF name = "li" THEN 12
    ELSE 5

\* C18 as stated: the base score of a content-bearing element is its weight
\* in h1=3.0, h2=2.5, h3=2.0, h4=1.5, p=1.5, li=1.2, table=2.0, and 0.5 for
\* h5, h6 and blockquote.
C18_BaseScore_AsStated ==
    (BaseScoreShows /\ s_name \in ContentTagSet) =>
        s_score = StatedWeight(s_name) * 100

\* C18: the base score of a content-bearing element is its weight in
\* h1=3.0, h2=2.5, h3=2.0, h4=1.5, p=1.5, li=1.2, table=2.0,
\* blockquote=1.0, and 0.5 for h5 and h6, which the table does not hold.
C18_BaseScore ==
    (BaseScoreShows /\ s_name \in ContentTagSet) =>
        s_score = (IF s_name = "blockquote" THEN 10 ELSE StatedWeight(s_name)) * 100

\* a <blockquote> of 10 characters with no ancestor scores 1.0
C18_Witness ==
    /\ s_name = "blockquote"
    /\ s_chain = <<>>
    /\ s_len = 10
    /\ s_score = 1000

\* the container weight of an ancestor as stated, in tenths
StatedContainerWeight(name) ==
    IF name = "main" THEN 30
    ELSE IF name \in {"article", "section"} THEN 20
    ELSE IF name = "body" THEN 10
    ELSE IF name = "div" THEN 5
    ELSE 0

\* (base x L + 0.1 x S) x P in thousandths, from the harness's element
StatedScore ==
    LET base == Get(TAG_SCORES, s_name, 5)
        L == IF s_len > 100 THEN 15 ELSE IF s_len > 50 THEN 12 ELSE 10
        S == SumSeq([k \in 1..Len(s_chain) |-> StatedContainerWeight(s_chain[k])])
        total == base * L * 10 + S * 10
    IN  IF s_len < 10 THEN (total * 3) \div 10 ELSE total

\* C19: the score is (base x L + 0.1 x S) x P: L is 1.5 above 100
\* characters, 1.2 above 50, else 1; S sums the container weights of every
\* ancestor; P is 0.3 under 10 characters, else 1.
C19_ScoreFormula == s_score = StatedScore

\* an <li> of exactly 100 characters under <div> under <main>:
\* 1.2 x 1.2 + 0.1 x (0.5 + 3) = 1.79
C19_Witness ==
    /\ s_name = "li"
    /\ s_chain = <<"div", "main">>
    /\ s_len = 100
    /\ s_score = 1790

\* the position of a tag name in the content-tag list
TagIndex(name) == CHOOSE j \in 1..Len(content_tags) : content_tags[j] = name

\* the j-th element of the ranked list was met before the k-th by the scan
\* of the ranker: an earlier content tag, or the same tag earlier in the page
EncounteredBefore(j, k) ==
    \/ TagIndex(NameAt(j)) < TagIndex(NameAt(k))
    \/ /\ NameAt(j) = NameAt(k)
       /\ main_content[j][1] < main_content[k][1]

\* C20: the ranked list is in non-increasing order of score, and two
\* elements of equal score are in the order the ranker met them: by content
\* tag (h1, h2, h3, h4, h5, h6, p, li, blockquote, table), then by document
\* order.
C20_RankOrderStable ==
    \A j, k \in 1..Len(main_content) :
        j < k =>
            /\ main_content[j][2] >= main_content[k][2]
            /\ main_content[j][2] = main_content[k][2] => EncounteredBefore(j, k)

\* the ranked list of the tie page: h1 (3.0), then h4 and the two p (1.5
\* each) with h4 first though a p precedes it in the page, then h5 (0.5)
\* though it is the first element of the page
C20_Witness ==
    /\ pc = "compose"
    /\ html_content = Some(TiePage)
    /\ main_content =
          <<<<9, 3000>>, <<5, 1500>>, <<3, 1500>>, <<7, 1500>>, <<1, 500>>>>

\* C21: two elements of the ranked list with the same score are in document
\* order, whatever their tags.
C21_TiesInDocumentOrder ==
    \A j, k \in 1..Len(main_content) :
        (j < k /\ main_content[j][2] = main_content[k][2]) =>
            main_content[j][1] < main_content[k][1]

\* the ranker has run on the cleaned tree and its list is still the call's
RankDone == pc \in {"compose", "return", "done"} /\ html_content # None
               /\ (pc = "compose" \/ caught = None)

\* the elements of the cleaned tree with a content tag
ContentElements ==
    {a \in soup.alive : IsTagNamed(soup.nodes[a], ContentTagSet)}

RankedElements == {main_content[k][1] : k \in 1..Len(main_content)}

\* C22: no element of the ranked list scores 0.1 or less, and every
\* content-bearing element of the cleaned tree scoring more than 0.1 is in
\* the list.
C22_ThresholdFilter ==
    RankDone =>
        /\ \A k \in 1..Len(main_content) : main_content[k][2] > 100
        /\ \A a \in ContentElements :
              calculate_element_score(soup, a) > 100 => a \in RankedElements

\* the tie page is ranked: its five content elements, the lowest at 0.5
C22_Witness ==
    /\ RankDone
    /\ html_content = Some(TiePage)
    /\ RankedElements = {1, 3, 5, 7, 9}
    /\ \E k \in 1..Len(main_content) : main_content[k][2] = 500

\* C27: every content-bearing element of the cleaned tree scores at least
\* 0.15 and is in the ranked list exactly once: the list is as long as the
\* cleaned tree has content-bearing elements.
C27_ThresholdNeverTriggers ==
    RankDone =>
        /\ \A a \in ContentElements : calculate_element_score(soup, a) >= 150
        /\ \A name \in ContentTagSet : ScoreOf(name, 0, <<>>) >= 150
        /\ RankedElements = ContentElements
        /\ Len(main_content) = Cardinality(ContentElements)

\* the example page is ranked: <h1>Title</h1> and <p>Short</p>, 5 characters
\* each, are penalised to 0.9 and 0.45 and both are in the list
C27_Witness ==
    /\ RankDone
    /\ html_content = Some(ExamplePage)
    /\ main_content = <<<<1, 900>>, <<3, 450>>>>

\* the code fragments of a page, one per <code> or <pre> whose trimmed text
\* is longer than 10 characters, in document order
CodeStrings(page) ==
    LET tree == ParseHtml(page)
        blocks == InOrder({a \in 1..Len(page) :
                      /\ page[a].kind = "tag"
                      /\ page[a].name \in {"code", "pre"}
                      /\ Len(get_text(tree, a)) > 10})
    IN  [k \in 1..Len(blocks) |-> CodeLine(get_text(tree, blocks[k]))]

\* a header, its lines and, when asked for, a blank line; nothing at all
\* when there is no line
SectionOf(header, lines, blank) ==
    IF lines = <<>> THEN <<>>
    ELSE <<header>> \o lines \o (IF blank THEN <<"">> ELSE <<>>)

\* C24: the output is the main-content blocks, then "## Code Blocks" with
\* every code fragment in extraction order, then "## Images", then
\* "## Important Links"; a header is there exactly when its sequence is not
\* empty, and nothing follows the link lines.
C24_SectionOrder ==
    Succeeded =>
        LET page == html_content[1]
            imgs == ImgsWithSrc(page)
            links == LinkStrings(page)
            first == FirstOccurrences(links)
        IN  markdown_parts =
                ExpectedMain
                \o SectionOf("## Code Blocks", CodeStrings(page), TRUE)
                \o SectionOf("## Images",
                             [k \in 1..Min(5, Len(imgs)) |-> ImageLine(page[imgs[k]])],
                             TRUE)
                \o SectionOf("## Important Links",
                             [k \in 1..Min(10, Len(first)) |-> links[first[k]]],
                             FALSE)

\* the code page: one paragraph, twelve code fragments of which the first
\* two are alike, one image, one link
C24_Witness ==
    /\ Succeeded
    /\ html_content = Some(CodePage)
    /\ Len(markdown_parts) = 21
    /\ markdown_parts[1] = "Some paragraph"
    /\ markdown_parts[3] = "## Code Blocks"
    /\ markdown_parts[4] = markdown_parts[5]
    /\ markdown_parts[15] = CodeLine("line number j")
    /\ markdown_parts[17] = "## Images"
    /\ markdown_parts[20] = "## Important Links"
    /\ markdown_parts[21] = "[Menu](/x)"

\* the nodes above node a in the page, out to the top
AncestorSet(a) == SeqToSet(Ancestors(soup.nodes, a))

\* C25: in the cleaned tree no element has a denylisted tag name, class or
\* id and no comment remains; nothing below a removed node remains; and no
\* element below a removed node is ranked.
C25_RemovalTakesDescendants ==
    CleanDone =>
        /\ \A a \in soup.alive :
              /\ ~Denylisted(soup.nodes[a])
              /\ AncestorSet(a) \subseteq soup.alive
        /\ \A a \in 1..Len(soup.nodes) :
              a \notin soup.alive => Descendants(soup.nodes, a) \cap soup.alive = {}
        /\ \A a \in RankedElements :
              /\ a \in soup.alive
              /\ \A b \in AncestorSet(a) : ~Denylisted(soup.nodes[b])

\* the sidebar page: the <p> below <div id="Top-Menu"> left the tree with
\* the div and only the other <p> is ranked and emitted
C25_Witness ==
    /\ Succeeded
    /\ html_content = Some(SidebarPage)
    /\ soup.alive = {5, 6}
    /\ IsTagNamed(soup.nodes[2], ContentTagSet)
    /\ RankedElements = {5}
    /\ markdown_parts[1] = "Hello, world"

\* the score element a of the cleaned tree would have without the penalty:
\* that of the same element with 10 characters when it has fewer
UnpenalizedScore(a) ==
    LET n == Len(get_text(soup, a))
    IN  ScoreOf(LowerStr(soup.nodes[a].name), IF n < 10 THEN 10 ELSE n,
                AncestorNames(soup, a))

\* the k-th element of the ranked list scores 0.3 times what it would
Penalized(k) == main_content[k][2] * 10 = UnpenalizedScore(main_content[k][1]) * 3

\* the ranked list if the penalty did not exist
RankWithoutPenalty ==
    LET scan == ScanTags(soup, content_tags)
    IN  SortByScore(<<>>, [k \in 1..Len(scan) |->
                              <<scan[k][1], UnpenalizedScore(scan[k][1])>>])

\* C26: an element is penalised exactly when its trimmed text has under 10
\* characters, no penalised element is emitted, and the output is the one
\* the same page gives if the penalty does not exist.
C26_PenaltyNeverShows ==
    Succeeded =>
        /\ \A k \in 1..Len(main_content) :
              /\ Penalized(k) <=> Len(TextAt(k)) < 10
              /\ Penalized(k) => k \notin Emitting
              /\ Penalized(k) =>
                    \A n \in 1..Min(Len(ExpectedMain), Len(markdown_parts)) :
                        n % 2 = 1 =>
                            markdown_parts[n] # Render(NameAt(k), TextAt(k))
        /\ markdown_parts = MarkdownParts(soup, special_elements, RankWithoutPenalty)

\* the penalty page: <h1>Title</h1> and <h2>Tiny</h2> would lead the list at
\* 3.0 and 2.5, are ranked last at 0.9 and 0.75, and are not in the output
C26_Witness ==
    /\ Succeeded
    /\ html_content = Some(PenaltyPage)
    /\ main_content = <<<<3, 1500>>, <<5, 1200>>, <<1, 900>>, <<7, 750>>>>
    /\ RankWithoutPenalty[1] = <<1, 3000>>
    /\ markdown_parts = <<"Hello, world", "", "- Another item", "">>

---------------------------------------------------------------------------
(* convert_to_markdown applied to every bounded (element, score) list *)

\* the most elements a list passed to the composer harness holds
MaxListed == 2

\* the tags of the listed elements: the ranker's tags, two containers, and
\* two tags whose name starts with "h" and is not h1..h6
ComposeTags == SeqToSet(content_tags) \cup {"div", "span", "header", "html"}

\* the texts of the listed elements: two of 10 characters or more, one shorter
ComposeTexts == {"Hello, world", "Another item", "Short"}

\* the tree <n1>t1</n1><n2>t2</n2>... for elems = <<<<n1, t1>>, <<n2, t2>>, ...>>
ListedTree(elems) ==
    ParseHtml([k \in 1..(2 * Len(elems)) |->
        IF k % 2 = 1 THEN Elem(elems[(k + 1) \div 2][1])
        ELSE Under(Text(elems[k \div 2][2]), k - 1)])

\* main_content: List[Tuple[Any, float]], every element of the tree in order
ListedMain(elems) == [k \in 1..Len(elems) |-> <<2 * k - 1, 1000>>]

InitCompose ==
    /\ InitPipeline
    /\ InitUrlIdle
    /\ InitScoreIdle
    /\ InitPairIdle
    /\ InitLoopIdle
    /\ InitExecIdle
    /\ InitReasonIdle
    /\ InitHistIdle
    /\ \E n \in 1..MaxListed :
          \E elems \in [1..n -> ComposeTags \X ComposeTexts] :
              /\ c_soup = ListedTree(elems)
              /\ c_main = ListedMain(elems)
    /\ c_parts = <<>>
    /\ c_raised = FALSE
    /\ c_pc = "ready"

\* convert_to_markdown(special_elements, main_content) with no special element
ComposeCall ==
    /\ c_pc = "ready"
    /\ c_raised' = ComposeMain(c_soup, c_main, {}, <<>>).raised
    /\ c_parts' = IF ComposeMain(c_soup, c_main, {}, <<>>).raised
                  THEN <<>>
                  ELSE MarkdownParts(c_soup, EmptySpecial, c_main)
    /\ c_pc' = "done"
    /\ UNCHANGED <<c_soup, c_main, engine_vars, exec_vars, reason_vars, hist_vars>>

NextCompose == ComposeCall

SpecCompose == InitCompose /\ [][NextCompose]_vars

\* the text and the tag name of the k-th listed element
ListedText(k) == get_text(c_soup, c_main[k][1])
ListedName(k) == LowerStr(c_soup.nodes[c_main[k][1]].name)

\* the listed positions that are emitted: a text of 10 characters or more
\* that no earlier position carries
ListedEmitting ==
    {k \in 1..Len(c_main) :
        /\ Len(ListedText(k)) >= 10
        /\ \A j \in 1..(k - 1) : ListedText(j) # ListedText(k)}

\* the block the statement gives an element: a header only for h1..h6
StatedRender(name, text) ==
    IF name \in {"h1", "h2", "h3", "h4", "h5", "h6"}
    THEN Repeat("#", DigitValue(CharAt(name, 2))) \o " " \o text
    ELSE IF name = "p" THEN text
    ELSE IF name = "li" THEN "- " \o text
    ELSE IF name = "blockquote" THEN "> " \o text
    ELSE IF name = "table" THEN "**Table:** " \o text
    ELSE text

\* C23: for every list passed to convert_to_markdown the call does not raise,
\* each emitted element is rendered by its tag (h1..h6 as a header of that
\* level, p plain, li with "- ", blockquote with "> ", table with
\* "**Table:** ", any other tag, header and html included, as plain text),
\* and one blank line follows every block.
C23_RendersEveryTag ==
    c_pc = "done" =>
        /\ ~c_raised
        /\ LET order == InOrder(ListedEmitting)
           IN  c_parts = [n \in 1..(2 * Len(order)) |->
                   IF n % 2 = 1
                   THEN StatedRender(ListedName(order[(n + 1) \div 2]),
                                     ListedText(order[(n + 1) \div 2]))
                   ELSE ""]

---------------------------------------------------------------------------
(* QAAgent._execute_agent_internally: the reasoning loop of one query *)

max_iterations == 5

\* what json.loads gives _get_agent_decision: a dict, or no decision at all
\* (no client, no JSON in the reply, a JSON error, any other exception; the
\* empty dict is as falsy as None)
Decisions ==
    {[action |-> "use_tool", tool_name |-> "web_analyzer"],
     [action |-> "use_tool", tool_name |-> "search"],
     [action |-> "use_tool", tool_name |-> ""],
     [action |-> "use_tool"],
     [action |-> "respond_directly", response |-> "The answer."],
     [action |-> "respond_directly", response |-> ""],
     [action |-> "respond_directly"],
     [action |-> "think_more"],
     [action |-> "summarize"],
     [reasoning |-> "nothing to do"]}

\* the strings _generate_final_response returns: the LLM's text, or the fixed
\* apology of its except clause; without a client, the fixed notice of line 377
\* (the source strings are Korean)
GeneratedResponses == {"Generated answer.", "Sorry, the answer could not be generated."}
NoClientResponse == "Sorry, the AI service is unavailable."

\* Fault variant of LoopContinues: the test is iteration <= max_iterations
LoopContinues_OneMore(n) == n <= max_iterations

\* while iteration < max_iterations
LoopContinues(n) == n < max_iterations

\* decision.get('action') and the like on the decision in hand
DecisionGet(key, default) == Get(decision[1], key, default)

InitReason ==
    /\ InitPipeline
    /\ InitUrlIdle
    /\ InitScoreIdle
    /\ InitPairIdle
    /\ InitLoopIdle
    /\ InitComposeIdle
    /\ InitExecIdle
    /\ InitHistIdle
    /\ r_pc = "while"
    /\ r_client \in BOOLEAN
    /\ iteration = 0
    /\ executed_actions = <<>>
    /\ decision = None
    /\ decisions_requested = 0
    /\ final_calls = 0
    /\ response = None

\* while iteration < max_iterations: iteration += 1; the tool list and the
\* prompt are built
ReasonWhile ==
    /\ r_pc = "while"
    /\ IF LoopContinues(iteration)
       THEN /\ iteration' = iteration + 1
            /\ r_pc' = "decide"
       ELSE /\ r_pc' = "final"
            /\ UNCHANGED iteration
    /\ UNCHANGED <<r_client, executed_actions, decision, decisions_requested,
                   final_calls, response>>
    /\ UNCHANGED <<engine_vars, compose_vars, exec_vars, hist_vars>>

\* decision = await self._get_agent_decision(reasoning_prompt)
ReasonDecide ==
    /\ r_pc = "decide"
    /\ decisions_requested' = decisions_requested + 1
    /\ \E d \in {None} \cup (IF r_client THEN {Some(x) : x \in Decisions} ELSE {}) :
          decision' = d
    /\ r_pc' = "dispatch"
    /\ UNCHANGED <<r_client, iteration, executed_actions, final_calls, response>>
    /\ UNCHANGED <<engine_vars, compose_vars, exec_vars, hist_vars>>

\* if not decision: break
ReasonNoDecision ==
    /\ r_pc = "dispatch"
    /\ decision = None
    /\ r_pc' = "final"
    /\ UNCHANGED <<r_client, iteration, executed_actions, decision,
                   decisions_requested, final_calls, response>>
    /\ UNCHANGED <<engine_vars, compose_vars, exec_vars, hist_vars>>

\* if action == "use_tool": if tool_name: the tool is called
ReasonUseTool ==
    /\ r_pc = "dispatch"
    /\ decision # None
    /\ DecisionGet("action", "") = "use_tool"
    /\ DecisionGet("tool_name", "") # ""
    /\ r_pc' = "tool"
    /\ UNCHANGED <<r_client, iteration, executed_actions, decision,
                   decisions_requested, final_calls, response>>
    /\ UNCHANGED <<engine_vars, compose_vars, exec_vars, hist_vars>>

\* tool_result = await self._execute_tool(...); executed_actions.append(...)
ReasonToolResult ==
    /\ r_pc = "tool"
    /\ \E success \in BOOLEAN :
          executed_actions' = Append(executed_actions,
              [type |-> "tool_execution",
               tool_name |-> DecisionGet("tool_name", ""),
               success |-> success])
    /\ r_pc' = "while"
    /\ UNCHANGED <<r_client, iteration, decision, decisions_requested,
                   final_calls, response>>
    /\ UNCHANGED <<engine_vars, compose_vars, exec_vars, hist_vars>>

\* if action == "use_tool": ... else: "Tool name not specified"; break
ReasonToolNameMissing ==
    /\ r_pc = "dispatch"
    /\ decision # None
    /\ DecisionGet("action", "") = "use_tool"
    /\ DecisionGet("tool_name", "") = ""
    /\ r_pc' = "final"
    /\ UNCHANGED <<r_client, iteration, executed_actions, decision,
                   decisions_requested, final_calls, response>>
    /\ UNCHANGED <<engine_vars, compose_vars, exec_vars, hist_vars>>

\* elif action == "respond_directly": response = decision.get('response', '');
\* return response when it is not empty
ReasonRespondDirectly ==
    /\ r_pc = "dispatch"
    /\ decision # None
    /\ DecisionGet("action", "") = "respond_directly"
    /\ IF DecisionGet("response", "") # ""
       THEN /\ response' = Some(DecisionGet("response", ""))
            /\ r_pc' = "returned"
       ELSE /\ r_pc' = "direct_final"
            /\ UNCHANGED response
    /\ UNCHANGED <<r_client, iteration, executed_actions, decision,
                   decisions_requested, final_calls>>
    /\ UNCHANGED <<engine_vars, compose_vars, exec_vars, hist_vars>>

\* elif action == "think_more": continue
ReasonThinkMore ==
    /\ r_pc = "dispatch"
    /\ decision # None
    /\ DecisionGet("action", "") = "think_more"
    /\ r_pc' = "while"
    /\ UNCHANGED <<r_client, iteration, executed_actions, decision,
                   decisions_requested, final_calls, response>>
    /\ UNCHANGED <<engine_vars, compose_vars, exec_vars, hist_vars>>

\* else: "Unknown action"; break
ReasonUnknownAction ==
    /\ r_pc = "dispatch"
    /\ decision # None
    /\ DecisionGet("action", "") \notin {"use_tool", "respond_directly", "think_more"}
    /\ r_pc' = "final"
    /\ UNCHANGED <<r_client, iteration, executed_actions, decision,
                   decisions_requested, final_calls, response>>
    /\ UNCHANGED <<engine_vars, compose_vars, exec_vars, hist_vars>>

\* return await self._generate_final_response(...), from line 179 or line 192
ReasonGenerateFinal ==
    /\ r_pc \in {"final", "direct_final"}
    /\ final_calls' = final_calls + 1
    /\ \E text \in (IF r_client THEN GeneratedResponses ELSE {NoClientResponse}) :
          response' = Some(text)
    /\ r_pc' = "returned"
    /\ UNCHANGED <<r_client, iteration, executed_actions, decision,
                   decisions_requested>>
    /\ UNCHANGED <<engine_vars, compose_vars, exec_vars, hist_vars>>

NextReason ==
    \/ ReasonWhile \/ ReasonDecide \/ ReasonNoDecision \/ ReasonUseTool
    \/ ReasonToolResult \/ ReasonToolNameMissing \/ ReasonRespondDirectly
    \/ ReasonThinkMore \/ ReasonUnknownAction \/ ReasonGenerateFinal

\* every awaited call comes back (the LLM request and the tool return or
\* raise), so the coroutine is always resumed
SpecReason == InitReason /\ [][NextReason]_vars /\ WF_vars(NextReason)

\* the limits of one call and where the value it returns comes from
ReasonWithinLimits ==
    /\ iteration <= max_iterations
    /\ decisions_requested <= max_iterations
    /\ decisions_requested = (IF r_pc = "decide" THEN iteration - 1 ELSE iteration)
    /\ Len(executed_actions) <= decisions_requested
    /\ Len(executed_actions) <= max_iterations
    /\ r_pc = "tool" => Len(executed_actions) < iteration
    /\ final_calls <= 1
    /\ r_pc = "returned" <=> response # None
    /\ r_pc = "returned" =>
          \/ /\ final_calls = 0
             /\ decision # None
             /\ DecisionGet("action", "") = "respond_directly"
             /\ response = Some(DecisionGet("response", ""))
             /\ response # Some("")
          \/ /\ final_calls = 1
             /\ response[1] \in GeneratedResponses \cup {NoClientResponse}

\* C29: a call requests at most 5 decisions and executes at most 5 tools, at
\* most one per iteration, and it always ends by returning a response: the
\* decision's own non-empty response or what _generate_final_response
\* returned.
C29_TerminatesWithinFive == []ReasonWithinLimits /\ <>(r_pc = "returned")

\* five use_tool decisions in a row: five tools, then the final response
C29_Witness ==
    /\ r_pc = "returned"
    /\ iteration = 5
    /\ decisions_requested = 5
    /\ Len(executed_actions) = 5
    /\ final_calls = 1
    /\ response = Some("Generated answer.")

---------------------------------------------------------------------------
(* QAAgent.process_query and the conversation history: two calls in flight *)

\* the most exchanges asked for in one context
MaxExchanges == 11

\* two calls are in flight for the same context only while it holds fewer
\* exchanges than this
MaxOverlap == 1

\* len(self.conversation_history[context_id]) > 20 ... [-20:]
history_limit == 20

\* _stream_response: chunk_size = 50
chunk_size == 50

Callers == {1, 2}
Contexts == {"ctx-a", "ctx-b"}

\* the query of a call is the number n when the context has had n - 1
\* exchanges at the time of the call; the answer to it has
\* 40 * (n mod 3) characters: no chunk, one chunk or two chunks
AnswerTo(query) == Repeat("x", 40 * (query % 3))

\* range(0, len(response), chunk_size): the number of chunks
NumChunks(text) == (Len(text) + chunk_size - 1) \div chunk_size

\* Fault variant of KeepLast: the list is never cut
KeepLast_Everything(q, n) == q

\* q[-n:]
KeepLast(q, n) == IF Len(q) > n THEN SubSeq(q, Len(q) - n + 1, Len(q)) ELSE q

\* the two entries of one exchange
Exchange(query, text) ==
    <<[role |-> "user", content |-> query],
      [role |-> "assistant", content |-> text]>>

\* self.conversation_history.get(context_id, [])
HistoryOf(history, context_id) ==
    IF context_id \in DOMAIN history THEN history[context_id] ELSE <<>>

\* _update_conversation_history(context_id, query, response): no await in
\* it, so it runs as one step of the event loop
update_conversation_history(history, context_id, query, text) ==
    LET appended == HistoryOf(history, context_id) \o Exchange(query, text)
        kept == IF Len(appended) > history_limit
                THEN KeepLast(appended, history_limit)
                ELSE appended
    IN  [c \in (DOMAIN history) \cup {context_id} |->
            IF c = context_id THEN kept ELSE history[c]]

\* the exchanges a context has had
Exchanges(c) == Len(completed[c]) \div 2

\* the calls in flight for a context
InFlight(c) == {j \in Callers : h_pc[j] # "idle" /\ h_ctx[j] = c}

InitHist ==
    /\ InitPipeline
    /\ InitUrlIdle
    /\ InitScoreIdle
    /\ InitPairIdle
    /\ InitLoopIdle
    /\ InitComposeIdle
    /\ InitExecIdle
    /\ InitReasonIdle
    /\ conversation_history = <<>>
    /\ completed = [c \in Contexts |-> <<>>]
    /\ h_pc = <<"idle", "idle">>
    /\ h_ctx = <<"", "">>
    /\ h_query = <<0, 0>>
    /\ h_response = <<None, None>>
    /\ h_sent = <<0, 0>>

\* the call returns to its caller: its locals are gone
HistLeave(i) ==
    /\ h_pc' = [h_pc EXCEPT ![i] = "idle"]
    /\ h_ctx' = [h_ctx EXCEPT ![i] = ""]
    /\ h_query' = [h_query EXCEPT ![i] = 0]
    /\ h_response' = [h_response EXCEPT ![i] = None]
    /\ h_sent' = [h_sent EXCEPT ![i] = 0]

\* process_query(query, context_id): history = self.conversation_history.get(...)
HistCall(i) ==
    /\ h_pc[i] = "idle"
    /\ UNCHANGED <<engine_vars, compose_vars, exec_vars, reason_vars>>
    /\ \E c \in Contexts :
          /\ Exchanges(c) + Cardinality(InFlight(c)) < MaxExchanges
          /\ InFlight(c) = {} \/ Exchanges(c) < MaxOverlap
          /\ h_ctx' = [h_ctx EXCEPT ![i] = c]
          /\ h_query' = [h_query EXCEPT ![i] = Exchanges(c) + 1]
    /\ h_pc' = [h_pc EXCEPT ![i] = "internal"]
    /\ UNCHANGED <<conversation_history, completed, h_response, h_sent>>

\* final_response = await self._execute_agent_internally(query, history, context)
HistInternalReturns(i) ==
    /\ h_pc[i] = "internal"
    /\ UNCHANGED <<engine_vars, compose_vars, exec_vars, reason_vars>>
    /\ h_response' = [h_response EXCEPT ![i] = Some(AnswerTo(h_query[i]))]
    /\ h_pc' = [h_pc EXCEPT ![i] = "stream"]
    /\ UNCHANGED <<conversation_history, completed, h_ctx, h_query, h_sent>>

\* an exception inside the try block before every chunk is out
HistRaises(i) ==
    /\ \/ h_pc[i] = "internal"
       \/ h_pc[i] = "stream" /\ h_sent[i] < NumChunks(h_response[i][1])
    /\ UNCHANGED <<engine_vars, compose_vars, exec_vars, reason_vars>>
    /\ h_pc' = [h_pc EXCEPT ![i] = "except"]
    /\ UNCHANGED <<conversation_history, completed, h_ctx, h_query,
                   h_response, h_sent>>

\* async for chunk in self._stream_response(final_response): yield chunk
HistStreamChunk(i) ==
    /\ h_pc[i] = "stream"
    /\ UNCHANGED <<engine_vars, compose_vars, exec_vars, reason_vars>>
    /\ h_sent[i] < NumChunks(h_response[i][1])
    /\ h_sent' = [h_sent EXCEPT ![i] = @ + 1]
    /\ UNCHANGED <<conversation_history, completed, h_pc, h_ctx, h_query,
                   h_response>>

\* await self._update_conversation_history(context_id, query, final_response)
HistUpdate(i) ==
    /\ h_pc[i] = "stream"
    /\ UNCHANGED <<engine_vars, compose_vars, exec_vars, reason_vars>>
    /\ h_sent[i] = NumChunks(h_response[i][1])
    /\ conversation_history' =
           update_conversation_history(conversation_history, h_ctx[i],
                                       h_query[i], h_response[i][1])
    /\ completed' = [completed EXCEPT ![h_ctx[i]] =
                        @ \o Exchange(h_query[i], h_response[i][1])]
    /\ HistLeave(i)

\* except Exception: the apology is yielded and the generator ends
HistExcept(i) ==
    /\ h_pc[i] = "except"
    /\ UNCHANGED <<engine_vars, compose_vars, exec_vars, reason_vars>>
    /\ HistLeave(i)
    /\ UNCHANGED <<conversation_history, completed>>

\* the consumer stops iterating or the task is cancelled: GeneratorExit and
\* CancelledError are no Exception, the generator ends where it stands
HistClosed(i) ==
    /\ h_pc[i] \in {"internal", "stream"}
    /\ UNCHANGED <<engine_vars, compose_vars, exec_vars, reason_vars>>
    /\ HistLeave(i)
    /\ UNCHANGED <<conversation_history, completed>>

NextHist ==
    \E i \in Callers :
        \/ HistCall(i) \/ HistInternalReturns(i) \/ HistRaises(i)
        \/ HistStreamChunk(i) \/ HistUpdate(i) \/ HistExcept(i)
        \/ HistClosed(i)

SpecHist == InitHist /\ [][NextHist]_vars

\* the history of one context: an even number of entries, 20 at most, user
\* and assistant in turn, and the latest entries of all that were appended
HistoryHoldsLatest(c) ==
    LET h == HistoryOf(conversation_history, c)
        all == completed[c]
    IN  /\ Len(h) % 2 = 0
        /\ Len(h) <= 20
        /\ Len(h) = Min(20, Len(all))
        /\ \A k \in 1..Len(h) :
              /\ h[k].role = (IF k % 2 = 1 THEN "user" ELSE "assistant")
              /\ h[k] = all[Len(all) - Len(h) + k]
        /\ c \in DOMAIN conversation_history <=> all # <<>>

\* call i ends, in this step, before all its chunks are out: it raises, it is
\* closed, or its handler finishes
FailsBeforeStreamed(i) ==
    \/ /\ h_pc[i] = "internal"
       /\ h_pc'[i] \in {"except", "idle"}
    \/ /\ h_pc[i] = "stream"
       /\ h_sent[i] < NumChunks(h_response[i][1])
       /\ h_pc'[i] \in {"except", "idle"}
    \/ /\ h_pc[i] = "except"
       /\ h_pc'[i] = "idle"

\* C30: after any sequence of process_query calls every context's history has
\* an even length of at most 20, alternates user and assistant starting with
\* user and holds the most recent exchanges; a call that fails before its
\* response is fully streamed leaves every history unchanged.
C30_HistoryBoundedAndAlternating ==
    /\ [](\A c \in Contexts : HistoryHoldsLatest(c))
    /\ [][(\E i \in Callers : FailsBeforeStreamed(i)) =>
              UNCHANGED conversation_history]_vars

\* eleven exchanges in one context: the first one is gone, the history
\* starts with the second query; the other context has no history
C30_Witness ==
    /\ Len(completed["ctx-a"]) = 22
    /\ Len(conversation_history["ctx-a"]) = 20
    /\ conversation_history["ctx-a"][1] = [role |-> "user", content |-> 2]
    /\ conversation_history["ctx-a"][20].role = "assistant"
    /\ DOMAIN conversation_history = {"ctx-a"}

---------------------------------------------------------------------------
(* QAExecutor.execute: one request after another *)

\* async def process_query(self, query: str, context_id: str, context: str = None)
process_query_parameters == <<"query", "context_id", "context">>
process_query_defaults == {"context"}

\* self.agent.process_query(user_message): the arguments of the call
process_query_arguments == <<"user_message">>

\* Python binds the positional arguments of a call: every parameter without
\* an argument needs a default, else the call raises TypeError
Binds(parameters, defaults, arguments) ==
    /\ Len(arguments) <= Len(parameters)
    /\ \A k \in (Len(arguments) + 1)..Len(parameters) : parameters[k] \in defaults

MissingArgument ==
    "QAAgent.process_query() missing 1 required positional argument: 'context_id'"

\* the apology process_query yields from its except clause (Korean in the source)
Apology == "Sorry, an unexpected problem occurred."

\* _stream_response(response): response[i:i + chunk_size] for each i
StreamResponse(text) ==
    [k \in 1..NumChunks(text) |->
        SubSeq(text, (k - 1) * chunk_size + 1, Min(k * chunk_size, Len(text)))]

\* what process_query yields when it runs: the chunks of the final response,
\* or the apology when the agent's processing raises (final is <<>>)
ProcessQueryYields(final) ==
    IF final = None THEN <<Apology>> ELSE StreamResponse(final[1])

Messages == {"What is on example.com?", "Hello", ""}
ContextIds == {"ctx-a", "default_context"}
TaskIds == {"task-1", "default_task"}

\* the final responses of the agent: no chunk, one chunk, two chunks
FinalResponses == {"", "Short answer.", Repeat("x", 60)}

WorkingEvent(chunk) ==
    [kind |-> "status", state |-> "working", final |-> FALSE, text |-> chunk,
     context_id |-> e_context_id, task_id |-> e_task_id]
ArtifactEvent(text) ==
    [kind |-> "artifact", state |-> "", final |-> TRUE, text |-> text,
     context_id |-> e_context_id, task_id |-> e_task_id]
CompletedEvent ==
    [kind |-> "status", state |-> "completed", final |-> TRUE, text |-> "",
     context_id |-> e_context_id, task_id |-> e_task_id]
FailedEvent(message) ==
    [kind |-> "status", state |-> "failed", final |-> TRUE,
     text |-> "Error processing your request: " \o message,
     context_id |-> e_context_id, task_id |-> e_task_id]

\* the events of the try block when it runs to its end
TryEvents(chunks) ==
    [k \in 1..Len(chunks) |-> WorkingEvent(chunks[k])]
        \o <<ArtifactEvent(ConcatAll(chunks)), CompletedEvent>>

\* execute(context, event_queue): the message and the ids are read
QABegin ==
    /\ e_pc = "idle"
    /\ user_message' \in Messages
    /\ e_context_id' \in ContextIds
    /\ e_task_id' \in TaskIds
    /\ e_final_response' \in {None} \cup {Some(r) : r \in FinalResponses}
    /\ response_text' = ""
    /\ event_queue' = <<>>
    /\ e_exc' = None
    /\ e_pc' = "try"
    /\ UNCHANGED <<engine_vars, compose_vars, reason_vars, hist_vars>>

\* the try block: the call of process_query, the loop over its chunks, the
\* artifact and the completed status
QATry ==
    /\ e_pc = "try"
    /\ IF Binds(process_query_parameters, process_query_defaults,
                process_query_arguments)
       THEN /\ response_text' = ConcatAll(ProcessQueryYields(e_final_response))
            /\ event_queue' = event_queue \o TryEvents(ProcessQueryYields(e_final_response))
            /\ e_pc' = "done"
            /\ UNCHANGED e_exc
       ELSE /\ e_exc' = Some(MissingArgument)
            /\ e_pc' = "except"
            /\ UNCHANGED <<response_text, event_queue>>
    /\ UNCHANGED <<user_message, e_context_id, e_task_id, e_final_response>>
    /\ UNCHANGED <<engine_vars, compose_vars, reason_vars, hist_vars>>

\* except Exception as e: the failed status is enqueued
QAExcept ==
    /\ e_pc = "except"
    /\ event_queue' = Append(event_queue, FailedEvent(e_exc[1]))
    /\ e_pc' = "done"
    /\ UNCHANGED <<user_message, e_context_id, e_task_id, e_final_response,
                   response_text, e_exc>>
    /\ UNCHANGED <<engine_vars, compose_vars, reason_vars, hist_vars>>

\* execute returns; the executor takes the next request
QAReturn ==
    /\ e_pc = "done"
    /\ e_pc' = "idle"
    /\ UNCHANGED <<user_message, e_context_id, e_task_id, e_final_response,
                   response_text, event_queue, e_exc>>
    /\ UNCHANGED <<engine_vars, compose_vars, reason_vars, hist_vars>>

InitExec ==
    /\ InitPipeline
    /\ InitUrlIdle
    /\ InitScoreIdle
    /\ InitPairIdle
    /\ InitLoopIdle
    /\ InitComposeIdle
    /\ InitReasonIdle
    /\ InitHistIdle
    /\ InitExecIdle

NextExec == QABegin \/ QATry \/ QAExcept \/ QAReturn

SpecExec == InitExec /\ [][NextExec]_vars

\* C28: when the agent's processing does not fail, execute enqueues one
\* working status per chunk of the response, then the artifact with the whole
\* response, then a final completed status; the final status is failed only
\* when the agent's processing itself raises.
C28_EventsFollowChunks ==
    e_pc = "done" =>
        /\ e_final_response # None =>
              event_queue = TryEvents(StreamResponse(e_final_response[1]))
        /\ event_queue[Len(event_queue)].state = "failed" =>
              e_final_response = None

===========================================================================
